---------------------------- MODULE Spec2Model ----------------------------
(***************************************************************************)
(* A model of the sd-bus binding layer of rust-systemd (src/src/bus/mod.rs *)
(* and src/src/bus/types.rs), of unit::escape_name (src/src/unit.rs) and   *)
(* of the journal's fields and whole-entry reads (src/src/journal.rs).     *)
(*                                                                         *)
(* Part I   - the four name validators (ObjectPath, InterfaceName,         *)
(*            BusName, MemberName) as pure functions over byte strings,    *)
(*            exercised by SpecNames.                                      *)
(* Part II  - one Message: append, the sealing operations (send*, call,    *)
(*            call_async), iter and next, over an engine message object    *)
(*            (sealed flag, body, read position); exercised by SpecMsg.    *)
(* Part III - callbacks handed to the engine by add_object,                *)
(*            request_name_async and call_async: the boxed closure, the    *)
(*            engine's slot, raw_message_handler and the destroy           *)
(*            callback; exercised by SpecSlot together with Part V.        *)
(* Part IV  - RawError / Error values over the engine's sd_bus_error:      *)
(*            create, clone, move into ret_error by a handler run, drop;   *)
(*            exercised by SpecErr.                                        *)
(* Part V   - the connection's incoming queue and process() /              *)
(*            process_priority(), in which the engine runs the handlers.   *)
(* Part VI  - the accessors of a connection and of a message header        *)
(*            (SpecAcc) and the timeout of a blocking call() (SpecCall,    *)
(*            with weak fairness of time and of the return: SpecCallLive). *)
(* Part VII - unit::escape_name; SpecUnit.                                 *)
(* Part VIII - JournalEntryField; SpecField.                               *)
(* Part IX  - the accessors of RawError over its name and message;         *)
(*            SpecRawErr.                                                  *)
(* Part X   - next_entry / previous_entry of the journal; SpecJournal.     *)
(*                                                                         *)
(* SpecPtr exercises the four from_ptr_unchecked conversions, SpecIter a   *)
(* received message with a second handle made by Message::clone, the       *)
(* iterators of both handles and peek_type.                                *)
(*                                                                         *)
(* Byte strings are sequences of byte values 0..255.  The engine           *)
(* (libsystemd) is the environment: each engine call is an operator named  *)
(* after the C function, with its outcome chosen by the action.            *)
(***************************************************************************)
EXTENDS Integers, Sequences, FiniteSets, TLC

VARIABLES
    input,      \* names: the byte slice handed to from_bytes
    called,     \* names: which validator was called ("none" before the call)
    res,        \* names: the Result the validator returned
    msg,        \* message: the engine's message object
    origin,     \* message: "new" (new_method_call) or "received" (from the engine)
    iter,       \* message: "none", or "live" while a MessageIter is held
    clone,      \* message: a second handle made by Message::clone, and its MessageIter
    last,       \* the last operation, its result, the message before it
    appended,   \* message: the values append() has returned Ok for, in order
    got,        \* message: the values next() has returned Some for, in order
    box,        \* slots: per callback, the Box<F> allocation
    slot,       \* slots: per callback, the engine's slot
    handler,    \* slots: what the last raw_message_handler run did
    aborted,    \* slots: the process was killed (one outcome of undefined behaviour)
    rqueue,     \* bus: the engine's queue of incoming work
    received,   \* bus: how many messages the engine has queued so far
    proc,       \* bus: the last process() / process_priority() call and its result
    presented,  \* bus: the messages the engine handed out through `ret`, in order
    delivered,  \* bus: the messages process() returned, in order
    errs,       \* errors: the RawError / Error values of the program
    heap,       \* errors: the engine's allocations behind them
    ret_error,  \* errors: the engine's return-error slot of a running handler
    badfree,    \* errors: free() was called on a pointer that is no allocation
    acc,        \* accessors: the connection, a message header, the last accessor call
    pending,    \* call: the blocking call() in progress, its timeout and the time left
    journal     \* journal: the entries, the data threshold, the read pointer, the last read

namesVars == <<input, called, res>>
msgVars == <<msg, origin, iter, clone, last, appended, got>>
slotVars == <<box, slot, handler, aborted>>
busVars == <<rqueue, received, proc, presented, delivered>>
errVars == <<errs, heap, ret_error, badfree>>
extVars == <<acc, pending, journal>>

vars == <<input, called, res, msg, origin, iter, clone, last, appended, got,
          box, slot, handler, aborted,
          rqueue, received, proc, presented, delivered,
          errs, heap, ret_error, badfree,
          acc, pending, journal>>

-----------------------------------------------------------------------------
(* Bytes the validators name literally.                                    *)
NUL == 0
Hyphen == 45
Period == 46
Slash == 47
Colon == 58
Underscore == 95

(* Further bytes used to build inputs.                                     *)
Digit1 == 49
LowerA == 97

(* b'A'..=b'Z', b'a'..=b'z', b'0'..=b'9' *)
IsUpper(c) == c \in 65..90
IsLower(c) == c \in 97..122
IsDigit(c) == c \in 48..57

(* `if b.len() > 256` of BusName::from_bytes and of MemberName::from_bytes. *)
BusNameBufMax_OffByOne == 256 + 1
BusNameBufMax == 256
MemberNameBufMax == 256

-----------------------------------------------------------------------------
(* Result<&Wrapper, &'static str>: Ok wraps the whole slice b              *)
(* (from_bytes_unchecked casts the slice as it is).                        *)
Ok(b) == [ok |-> TRUE, buf |-> b, err |-> ""]
Err(m) == [ok |-> FALSE, buf |-> <<>>, err |-> m]
NoResult == [ok |-> FALSE, buf |-> <<>>, err |-> "not called"]

(* The state of a validator's `for` loop: whether a `return` was taken,    *)
(* the value returned, and the local `periods`.                            *)
Running(periods) == [done |-> FALSE, ret |-> NoResult, periods |-> periods]
Return(r, periods) == [done |-> TRUE, ret |-> r, periods |-> periods]

-----------------------------------------------------------------------------
(* ObjectPath::from_bytes: the body of `for w in b.windows(2)`; i is the   *)
(* 1-based index of w[1].                                                  *)
ObjectPathStep(b, i, st) ==
    LET prev == b[i - 1]
        c == b[i]
    IN  IF c = Slash
        THEN IF prev = Slash
             THEN Return(Err("Path must not have 2 '/' next to each other"), 0)
             ELSE st
        ELSE IF IsUpper(c) \/ IsLower(c) \/ IsDigit(c) \/ c = Underscore
        THEN st
        ELSE IF c = NUL
        THEN IF prev = Slash /\ Len(b) # 2
             THEN Return(Err("Path must not end in '/' unless it is the root path"), 0)
             ELSE Return(Ok(b), 0)
        ELSE Return(Err("Invalid character in path, only '[A-Z][a-z][0-9]_/' allowed"), 0)

(* InterfaceName::from_bytes: the body of `for w in b.windows(2)`.         *)
InterfaceNameStep(b, i, st) ==
    LET prev == b[i - 1]
        c == b[i]
        periods == st.periods
    IN  IF c = Period
        THEN IF prev = Period
             THEN Return(Err("Name must not have 2 '.' next to each other"), periods)
             ELSE Running(periods + 1)
        ELSE IF IsUpper(c) \/ IsLower(c) \/ c = Underscore
        THEN st
        ELSE IF IsDigit(c)
        THEN IF prev = Period
             THEN Return(Err("Name element must not start with '[0-9]'"), periods)
             ELSE st
        ELSE IF c = NUL
        THEN IF prev = Period /\ Len(b) # 1
             THEN Return(Err("Name must not end in '.'"), periods)
             ELSE IF periods < 1
             THEN Return(Err("Name must have at least 2 elements"), periods)
             ELSE Return(Ok(b), periods)
        ELSE Return(Err("Invalid character in interface name, only '[A-Z][a-z][0-9]_\\.' allowed"),
                    periods)

(* BusName::from_bytes: the body of `for w in b.windows(2)`.               *)
BusNameStep(b, i, st, is_unique) ==
    LET prev == b[i - 1]
        c == b[i]
        periods == st.periods
    IN  IF c = Period
        THEN IF prev = Period \/ prev = Colon
             THEN Return(Err("Elements may not be empty"), periods)
             ELSE Running(periods + 1)
        ELSE IF IsUpper(c) \/ IsLower(c) \/ c = Underscore \/ c = Hyphen
        THEN st
        ELSE IF IsDigit(c)
        THEN IF prev = Period /\ ~is_unique
             THEN Return(Err("Name element must not start with '[0-9]'"), periods)
             ELSE st
        ELSE IF c = NUL
        THEN IF prev = Period /\ Len(b) # 1
             THEN Return(Err("Name must not end in '.'"), periods)
             ELSE IF periods < 1
             THEN Return(Err("Name must have at least 2 elements"), periods)
             ELSE Return(Ok(b), periods)
        ELSE Return(Err("Invalid character in bus name, only '[A-Z][a-z][0-9]_\\.' allowed"),
                    periods)

(* MemberName::from_bytes: the body of `for c in b`.                       *)
MemberNameStep(b, i, st) ==
    LET c == b[i]
    IN  IF IsUpper(c) \/ IsLower(c) \/ IsDigit(c) \/ c = Underscore
        THEN st
        ELSE IF c = NUL
        THEN Return(Ok(b), 0)
        ELSE Return(Err("Invalid character in member name, only '[A-Z][a-z][0-9]_' allowed"), 0)

(* One iteration of the loop of validator `kind`; nothing runs after a     *)
(* `return`.                                                               *)
LoopStep(kind, b, i, st) ==
    IF st.done THEN st
    ELSE CASE kind = "ObjectPath" -> ObjectPathStep(b, i, st)
           [] kind = "InterfaceName" -> InterfaceNameStep(b, i, st)
           [] kind = "BusName" -> BusNameStep(b, i, st, FALSE)
           [] kind = "BusNameUnique" -> BusNameStep(b, i, st, TRUE)
           [] kind = "MemberName" -> MemberNameStep(b, i, st)

(* The iterations lo..hi in order, split in halves so that the evaluation  *)
(* depth stays logarithmic in the slice length.                            *)
RECURSIVE ForLoop(_, _, _, _, _)
ForLoop(kind, b, lo, hi, st) ==
    IF lo > hi THEN st
    ELSE IF lo = hi THEN LoopStep(kind, b, lo, st)
    ELSE LET mid == (lo + hi) \div 2
             first == ForLoop(kind, b, lo, mid, st)
         IN  IF first.done THEN first ELSE ForLoop(kind, b, mid + 1, hi, first)

(* The loop, then the statement after it (reached when no iteration        *)
(* returned).                                                              *)
ScanOrElse(kind, b, first, unterminated) ==
    LET st == ForLoop(kind, b, first, Len(b), Running(0))
    IN  IF st.done THEN st.ret ELSE Err(unterminated)

ObjectPathFromBytes(b) ==
    IF Len(b) = 0
    THEN Err("Path must have at least 1 character ('/')")
    ELSE IF b[1] # Slash
    THEN Err("Path must begin with '/'")
    ELSE ScanOrElse("ObjectPath", b, 2,
                    "Path must be terminated in a '\\0' byte (for use by sd-bus)")

(* InterfaceName::from_bytes without the `match b[0]` arm that rejects a   *)
(* first byte outside [A-Za-z_].                                           *)
InterfaceNameFromBytes_AnyFirstByte(b) ==
    IF Len(b) = 0
    THEN Err("Name must have more than 0 characters")
    ELSE IF b[1] = Period
    THEN Err("Name must not begin with '.'")
    ELSE ScanOrElse("InterfaceName", b, 2,
                    "Name must be terminated in a '\\0' byte (for use by sd-bus)")

InterfaceNameFromBytes(b) ==
    IF Len(b) = 0
    THEN Err("Name must have more than 0 characters")
    ELSE IF b[1] = Period
    THEN Err("Name must not begin with '.'")
    ELSE IF ~(IsUpper(b[1]) \/ IsLower(b[1]) \/ b[1] = Underscore)
    THEN Err("Name must only begin with '[A-Z][a-z]_'")
    ELSE ScanOrElse("InterfaceName", b, 2,
                    "Name must be terminated in a '\\0' byte (for use by sd-bus)")

(* BusName::from_bytes with `is_unique = true` forgotten in the b':' arm.  *)
BusNameFromBytes_UniqueNotSet(b) ==
    IF Len(b) = 0
    THEN Err("Name must have more than 0 characters")
    ELSE IF Len(b) > BusNameBufMax
    THEN Err("Must be shorter than 255 characters")
    ELSE IF b[1] = Period
    THEN Err("Name must not begin with '.'")
    ELSE IF IsUpper(b[1]) \/ IsLower(b[1]) \/ b[1] = Underscore \/ b[1] = Hyphen
            \/ b[1] = Colon
    THEN ScanOrElse("BusName", b, 2,
                    "Name must be terminated in a '\\0' byte (for use by sd-bus)")
    ELSE Err("Name must only begin with '[A-Z][a-z]_'")

BusNameFromBytes(b) ==
    IF Len(b) = 0
    THEN Err("Name must have more than 0 characters")
    ELSE IF Len(b) > BusNameBufMax
    THEN Err("Must be shorter than 255 characters")
    ELSE IF b[1] = Period
    THEN Err("Name must not begin with '.'")
    ELSE IF IsUpper(b[1]) \/ IsLower(b[1]) \/ b[1] = Underscore \/ b[1] = Hyphen
    THEN ScanOrElse("BusName", b, 2,
                    "Name must be terminated in a '\\0' byte (for use by sd-bus)")
    ELSE IF b[1] = Colon
    THEN ScanOrElse("BusNameUnique", b, 2,
                    "Name must be terminated in a '\\0' byte (for use by sd-bus)")
    ELSE Err("Name must only begin with '[A-Z][a-z]_'")

(* MemberName::from_bytes without the `match b[0]` that rejects a first   *)
(* byte outside [A-Za-z_].                                                 *)
MemberNameFromBytes_AnyFirstByte(b) ==
    IF Len(b) < 2
    THEN Err("Name must have more than 0 characters")
    ELSE IF Len(b) > MemberNameBufMax
    THEN Err("Must be shorter than 255 characters")
    ELSE ScanOrElse("MemberName", b, 1,
                    "Name must be terminated in a '\\0' byte (for use by sd-bus)")

MemberNameFromBytes(b) ==
    IF Len(b) < 2
    THEN Err("Name must have more than 0 characters")
    ELSE IF Len(b) > MemberNameBufMax
    THEN Err("Must be shorter than 255 characters")
    ELSE IF ~(IsUpper(b[1]) \/ IsLower(b[1]) \/ b[1] = Underscore)
    THEN Err("Must begin with '[A-Z][a-z]_'")
    ELSE ScanOrElse("MemberName", b, 1,
                    "Name must be terminated in a '\\0' byte (for use by sd-bus)")

-----------------------------------------------------------------------------
(* The byte strings the validators are run on.                             *)

(* Length of the exhaustively enumerated byte strings.                     *)
MaxLen == 5
(* Long inputs have lengths within LenSlack of the 256-byte limit.         *)
LenSlack == 2

Sigma == {NUL, Hyphen, Period, Slash, Digit1, Colon, LowerA}

ShortInputs == UNION {[1..k -> Sigma] : k \in 0..MaxLen}

(* Inputs of the repository's own unit tests (t_path, t_interface,         *)
(* t_busname, t_member_name) and of tests/bus.rs.                          *)
TestVectors ==
    { <<47, 104, 101, 108, 108, 111, 47, 103, 111, 111, 100, 98, 121, 101,
        47, 48, 49, 51, 47, 52, 47, 72, 65, 0>>,  \* "/hello/goodbye/013/4/HA\0"
      <<47, 104, 101, 108, 108, 111, 47, 0>>,     \* "/hello/\0"
      <<47, 104, 101, 108, 108, 111, 47, 103, 111, 111, 100, 98, 121, 101,
        47, 48, 49, 51, 47, 52, 63, 47, 72, 65, 0>>, \* "/hello/goodbye/013/4?/HA\0"
      <<65, 46, 90, 46, 120, 97, 114, 46, 121, 102, 100, 115, 46, 100, 51,
        52, 57, 48, 0>>,                          \* "A.Z.xar.yfds.d3490\0"
      <<97, 46, 98, 46, 51, 0>>,                  \* "a.b.3\0"
      <<97, 46, 98, 46, 99, 63, 0>>,              \* "a.b.c?\0"
      <<58, 97, 46, 98, 45, 99, 46, 49, 0>>,      \* ":a.b-c.1\0"
      <<97, 46, 98, 45, 99, 46, 48, 97, 0>>,      \* "a.b-c.0a\0"
      <<97, 46, 98, 45, 99, 46, 97, 48, 0>>,      \* "a.b-c.a0\0"
      <<97, 98, 99, 49, 51, 0>>,                  \* "abc13\0"
      <<97, 98, 99, 46, 49, 51, 0>>,              \* "abc.13\0"
      <<49, 50, 51, 52, 97, 98, 99, 0>>,          \* "1234abc\0"
      <<111, 114, 103, 46, 102, 114, 101, 101, 100, 101, 115, 107, 116, 111,
        112, 46, 68, 66, 117, 115, 0>> }          \* "org.freedesktop.DBus\0"

(* Names around the length limit: a head, padding of 'a', and either a     *)
(* terminating NUL or one more 'a'.                                        *)
LongHeads == { <<LowerA>>, <<LowerA, Period>>, <<Colon, Digit1, Period>> }

LongInput(h, n, nul) ==
    [i \in 1..n |-> IF i <= Len(h) THEN h[i]
                    ELSE IF i = n /\ nul THEN NUL
                    ELSE LowerA]

LongInputs ==
    { LongInput(h, n, nul) :
        h \in LongHeads,
        n \in (256 - LenSlack)..(256 + LenSlack),
        nul \in BOOLEAN }

Inputs == ShortInputs \cup TestVectors \cup LongInputs

-----------------------------------------------------------------------------
(* Part II: one Message.                                                   *)

(* crate::Result<T>: Ok(value) or Err(io::Error::from_raw_os_error(errno)). *)
IoOk(v) == [ok |-> TRUE, val |-> v, errno |-> 0]
IoErr(e) == [ok |-> FALSE, val |-> <<>>, errno |-> e]

(* crate::ffi_result: a negative engine status is an OS error carrying the *)
(* negated status; any other status is Ok(status).                         *)
ffi_result(ret) == IF ret < 0 THEN IoErr(-ret) ELSE IoOk(ret)

(* Option<T>.                                                              *)
Some(v) == [some |-> TRUE, v |-> v]
None == [some |-> FALSE, v |-> <<>>]

(* The Rust types append() and next() are instantiated at.                 *)
DirectTypes == {"u8", "i16", "u16", "i32", "u32", "i64", "u64"}
RustTypes == DirectTypes \cup {"bool", "str", "path"}

(* SdBusMessageDirect::dbus_type() as given to msg_basic!, and the tags    *)
(* the other impls pass to append_basic_raw / read_basic_raw.              *)
dbus_type(ty) ==
    CASE ty = "u8" -> "y" [] ty = "i16" -> "n" [] ty = "u16" -> "q"
      [] ty = "i32" -> "i" [] ty = "u32" -> "u" [] ty = "i64" -> "x"
      [] ty = "u64" -> "t" [] ty = "bool" -> "b" [] ty = "path" -> "o"
      [] ty = "str" -> "s"

(* size_of::<T>() and signedness of the direct types.                      *)
SizeOf(ty) ==
    CASE ty = "u8" -> 1 [] ty \in {"i16", "u16"} -> 2
      [] ty \in {"i32", "u32"} -> 4 [] ty \in {"i64", "u64"} -> 8
IsSigned(ty) == ty \in {"i16", "i32", "i64"}

(* The number of bytes the engine copies for a fixed-size D-Bus type.      *)
TagWidth(tag) ==
    CASE tag = "y" -> 1 [] tag \in {"n", "q"} -> 2
      [] tag \in {"i", "u", "b"} -> 4 [] tag \in {"x", "t"} -> 8
IsStringTag(tag) == tag \in {"s", "o"}

(* Memory: a value of an integer type as little-endian two's-complement    *)
(* bytes, and back.                                                        *)
Pow256(k) == CASE k = 0 -> 1 [] k = 1 -> 256 [] k = 2 -> 65536 [] k = 3 -> 16777216
ByteOf(v, i) == IF i > 4 THEN 0 ELSE (v \div Pow256(i - 1)) % 256
ToMem(v, n) ==
    [i \in 1..n |-> IF v >= 0 THEN ByteOf(v, i) ELSE 255 - ByteOf(-v - 1, i)]
ByteAt(m, i) == IF i <= Len(m) THEN m[i] ELSE 0
Magnitude(m) ==
    ByteAt(m, 1) + 256 * ByteAt(m, 2) + 65536 * ByteAt(m, 3) + 16777216 * ByteAt(m, 4)
FromMem(m, signed) ==
    IF signed /\ m[Len(m)] >= 128
    THEN -(1 + Magnitude([i \in 1..Len(m) |-> 255 - m[i]]))
    ELSE Magnitude(m)

(* The bytes of the C string that starts at a pointer: up to and including *)
(* the first NUL.                                                          *)
CStrAt(mem) == SubSeq(mem, 1, CHOOSE i \in 1..Len(mem) :
                                  mem[i] = NUL /\ \A j \in 1..(i - 1) : mem[j] # NUL)
(* CStr::to_bytes and CStr::to_bytes_with_nul.                             *)
to_bytes(c) == SubSeq(c, 1, Len(c) - 1)
to_bytes_with_nul(c) == c

(* ObjectPath::from_ptr_unchecked: the ObjectPath's inner bytes.           *)
ObjectPathFromPtrUnchecked(mem) == to_bytes(CStrAt(mem))
(* InterfaceName, BusName and MemberName::from_ptr_unchecked.             *)
InterfaceNameFromPtrUnchecked(mem) == to_bytes_with_nul(CStrAt(mem))
BusNameFromPtrUnchecked(mem) == to_bytes(CStrAt(mem))
MemberNameFromPtrUnchecked(mem) == to_bytes(CStrAt(mem))
(* Utf8CStr::from_cstr_unchecked(CStr::from_ptr(x)): the whole C string.   *)
Utf8CStrFromPtr(mem) == to_bytes_with_nul(CStrAt(mem))

(* The engine's message object: sealed flag, body (one element per         *)
(* appended basic value: its D-Bus type tag and its bytes) and the read    *)
(* position (the number of elements already read).                         *)
NewMessage == [sealed |-> FALSE, body |-> <<>>, rpos |-> 0]

(* sd_bus_message_seal as done inside send/call: an open message becomes   *)
(* sealed with the read position at its start; a sealed one is left alone. *)
sd_bus_message_seal(m) ==
    IF m.sealed THEN m ELSE [m EXCEPT !.sealed = TRUE, !.rpos = 0]

(* sd_bus_message_append_basic(m, type, p): -EPERM (-1) on a sealed        *)
(* message, -ENOMEM (-12) when the body cannot grow; otherwise the value   *)
(* at p is copied in: the C string for 's' and 'o', 0 or 1 for 'b', and    *)
(* the type's width in bytes for the integers.                             *)
sd_bus_message_append_basic(m, tag, mem, nomem) ==
    IF m.sealed THEN [status |-> -1, msg |-> m]
    ELSE IF nomem THEN [status |-> -12, msg |-> m]
    ELSE LET wire == IF IsStringTag(tag) THEN CStrAt(mem)
                     ELSE IF tag = "b"
                          THEN ToMem(IF Magnitude(mem) # 0 THEN 1 ELSE 0, 4)
                          ELSE SubSeq(mem, 1, TagWidth(tag))
         IN  [status |-> 0,
              msg |-> [m EXCEPT !.body = Append(@, [tag |-> tag, wire |-> wire])]]

(* sd_bus_message_read_basic(m, type, p): -EPERM (-1) on an open message,  *)
(* 0 at the end of the body, -ENXIO (-6) when the element at the read      *)
(* position has another type; otherwise 1, the element is stored through p *)
(* (for 's' and 'o': a pointer to the C string inside the message) and the *)
(* read position advances.                                                 *)
sd_bus_message_read_basic(m, tag) ==
    IF ~m.sealed THEN [status |-> -1, msg |-> m, out |-> <<>>]
    ELSE IF m.rpos >= Len(m.body) THEN [status |-> 0, msg |-> m, out |-> <<>>]
    ELSE IF m.body[m.rpos + 1].tag # tag THEN [status |-> -6, msg |-> m, out |-> <<>>]
    ELSE [status |-> 1,
          msg |-> [m EXCEPT !.rpos = @ + 1],
          out |-> m.body[m.rpos + 1].wire]

(* sd_bus_message_peek_type(m, NULL, NULL): -EPERM (-1) on an open         *)
(* message, 0 at the end of the body, 1 otherwise; the read position does  *)
(* not move.                                                               *)
sd_bus_message_peek_type(m) ==
    IF ~m.sealed THEN -1
    ELSE IF m.rpos >= Len(m.body) THEN 0
    ELSE 1

(* sd_bus_send / sd_bus_send_to: the message is sealed and queued          *)
(* (status 1, a cookie is stored), or the connection is not usable and     *)
(* nothing happens (-ENOTCONN, -107), or the message is sealed and the     *)
(* write then fails (-ECONNRESET, -104).                                   *)
SendOutcomes == {"sent", "notconn", "reset"}
sd_bus_send(m, outcome) ==
    CASE outcome = "sent" -> [status |-> 1, msg |-> sd_bus_message_seal(m), cookie |-> 1]
      [] outcome = "notconn" -> [status |-> -107, msg |-> m, cookie |-> 0]
      [] outcome = "reset" -> [status |-> -104, msg |-> sd_bus_message_seal(m), cookie |-> 0]

(* sd_bus_call(bus, m, usec, ret_error, reply): on success the reply is    *)
(* stored and ret_error stays unset.  On failure the reply is not stored;  *)
(* ret_error is filled in when the failure is a method error from the peer *)
(* ("peer_error", -EBADR = -53) or the timeout ("timeout", -ETIMEDOUT =    *)
(* -110); a failure found while checking the arguments or the connection   *)
(* ("notconn", -ENOTCONN = -107) returns before sealing, and whether it    *)
(* fills in ret_error depends on the engine's version ("notconn_noerr").   *)
CallOutcomes == {"reply", "peer_error", "timeout", "notconn", "notconn_noerr"}
sd_bus_call(m, outcome) ==
    CASE outcome = "reply" ->
            [status |-> 1, msg |-> sd_bus_message_seal(m), error_set |-> FALSE, reply_stored |-> TRUE]
      [] outcome = "peer_error" ->
            [status |-> -53, msg |-> sd_bus_message_seal(m), error_set |-> TRUE, reply_stored |-> FALSE]
      [] outcome = "timeout" ->
            [status |-> -110, msg |-> sd_bus_message_seal(m), error_set |-> TRUE, reply_stored |-> FALSE]
      [] outcome = "notconn" ->
            [status |-> -107, msg |-> m, error_set |-> TRUE, reply_stored |-> FALSE]
      [] outcome = "notconn_noerr" ->
            [status |-> -107, msg |-> m, error_set |-> FALSE, reply_stored |-> FALSE]

(* append_basic_raw without the `ffi_result(..)?`: the engine's status is  *)
(* dropped and Ok(()) returned.                                            *)
append_basic_raw_StatusIgnored(m, tag, mem, nomem) ==
    LET e == sd_bus_message_append_basic(m, tag, mem, nomem)
    IN  [msg |-> e.msg, status |-> e.status, res |-> IoOk(<<>>)]

(* MessageRef::append_basic_raw.                                           *)
append_basic_raw(m, tag, mem, nomem) ==
    LET e == sd_bus_message_append_basic(m, tag, mem, nomem)
        r == ffi_result(e.status)
    IN  [msg |-> e.msg, status |-> e.status,
         res |-> IF r.ok THEN IoOk(<<>>) ELSE r]

(* ToSdBusMessage::to_message for each type: the tag and the memory the    *)
(* pointer handed to append_basic_raw points at.                           *)
to_message(v, m, nomem) ==
    IF v.ty \in DirectTypes
    THEN append_basic_raw(m, dbus_type(v.ty), ToMem(v.val, SizeOf(v.ty)), nomem)
    ELSE IF v.ty = "bool"
    THEN append_basic_raw(m, "b", ToMem(IF v.val THEN 1 ELSE 0, 4), nomem)
    ELSE IF v.ty = "path"
    THEN append_basic_raw(m, "o", v.val, nomem)
    ELSE append_basic_raw(m, "s", v.val, nomem)

(* MessageIter::read_basic_raw with the cons closure of each               *)
(* FromSdBusMessage impl.                                                  *)
cons(ty, out) ==
    IF ty \in DirectTypes THEN FromMem(out, IsSigned(ty))
    ELSE IF ty = "bool" THEN FromMem(out, TRUE) # 0
    ELSE IF ty = "path" THEN ObjectPathFromPtrUnchecked(out)
    ELSE Utf8CStrFromPtr(out)

read_basic_raw_MismatchIsNone(m, ty) ==
    LET e == sd_bus_message_read_basic(m, dbus_type(ty))
    IN  [msg |-> e.msg, status |-> e.status,
         res |-> IF e.status = 1 THEN IoOk(Some([ty |-> ty, val |-> cons(ty, e.out)]))
                 ELSE IoOk(None)]

read_basic_raw(m, ty) ==
    LET e == sd_bus_message_read_basic(m, dbus_type(ty))
        r == ffi_result(e.status)
    IN  [msg |-> e.msg, status |-> e.status,
         res |-> IF ~r.ok THEN r
                 ELSE IF r.val = 1 THEN IoOk(Some([ty |-> ty, val |-> cons(ty, e.out)]))
                 ELSE IoOk(None)]

(* MessageRef::send, send_no_reply, send_to, send_to_no_reply.             *)
send(m, outcome, want_cookie) ==
    LET e == sd_bus_send(m, outcome)
        r == ffi_result(e.status)
    IN  [msg |-> e.msg, status |-> e.status,
         res |-> IF ~r.ok THEN r
                 ELSE IF want_cookie THEN IoOk(e.cookie) ELSE IoOk(<<>>)]

(* RawError::into_result: Err exactly when the error is set.               *)
into_result(error_set) == IF error_set THEN [ok |-> FALSE] ELSE [ok |-> TRUE]

(* MessageRef::call: the status of sd_bus_call is dropped; into_result     *)
(* decides, and on Ok the reply slot is assumed initialised.               *)
call(m, outcome) ==
    LET e == sd_bus_call(m, outcome)
        r == into_result(e.error_set)
    IN  [msg |-> e.msg, status |-> e.status, ok |-> r.ok,
         reply |-> IF ~r.ok THEN "none"
                   ELSE IF e.reply_stored THEN "reply" ELSE "uninit"]

(* MessageRef::iter: the peek_type probe.                                  *)
iter_probe_Unchecked(m) == IoOk(1)

iter_probe(m) == ffi_result(sd_bus_message_peek_type(m))

(* sd_bus_message_peek_type(m, &t, &cont): as above, and whenever the      *)
(* status is not negative both outputs are written: at the end of the body *)
(* the type is 0 and the contents NULL, before a basic value the type is   *)
(* its tag and the contents NULL.  Nothing is written on an error.         *)
NulType == "NUL"
sd_bus_message_peek_type_out(m) ==
    LET status == sd_bus_message_peek_type(m)
    IN  [status |-> status, msg |-> m,
         written |-> status >= 0,
         type |-> IF status = 1 THEN m.body[m.rpos + 1].tag ELSE NulType,
         contents |-> "NULL"]

(* MessageIter::peek_type: Err on a negative status, else (t, s) where s   *)
(* is "" for NULL contents.                                                *)
peek_type_Advancing(m) ==
    LET e == sd_bus_message_peek_type_out(m)
        r == ffi_result(e.status)
    IN  [msg |-> IF e.status = 1 THEN [m EXCEPT !.rpos = @ + 1] ELSE m,
         status |-> e.status,
         res |-> IF ~r.ok THEN r
                 ELSE IoOk([t |-> e.type, s |-> IF e.contents = "NULL" THEN "" ELSE e.contents])]

peek_type(m) ==
    LET e == sd_bus_message_peek_type_out(m)
        r == ffi_result(e.status)
    IN  [msg |-> e.msg, status |-> e.status,
         res |-> IF ~r.ok THEN r
                 ELSE IoOk([t |-> e.type, s |-> IF e.contents = "NULL" THEN "" ELSE e.contents])]

-----------------------------------------------------------------------------
(* Part III: callbacks handed to the engine.                               *)

MaxCallbacks == 2
MaxHandlerRuns == 2
Callbacks == 1..MaxCallbacks

(* The heap allocation of one boxed closure: its state, how often it has   *)
(* been freed, by whom, and whether it was used after being freed.         *)
NoBox == [state |-> "none", frees |-> 0, freedBy |-> {}, uaf |-> FALSE]

(* Box::into_raw(Box::new(callback)).                                      *)
Box_into_raw == [state |-> "live", frees |-> 0, freedBy |-> {}, uaf |-> FALSE]

(* Dropping the Box rebuilt by Box::from_raw(ptr): the allocation is       *)
(* freed; when it already was, this is a second free of the same pointer.  *)
Box_from_raw_drop(b, who) ==
    [b EXCEPT !.state = "freed", !.frees = @ + 1, !.freedBy = @ \cup {who}]

(* Calling the closure through the Box rebuilt by Box::from_raw(ptr).      *)
Box_call(b) == IF b.state = "live" THEN b ELSE [b EXCEPT !.uaf = TRUE]

(* The engine's slot for one registration.                                 *)
NoSlot == [state |-> "none", kind |-> "none", destroy_cb |-> FALSE, floating |-> FALSE]

(* sd_bus_add_object / sd_bus_request_name_async / sd_bus_call_async: a    *)
(* slot holding the handler and its userdata is created and status 0       *)
(* returned, or no slot is created and the status is negative.             *)
sd_bus_new_slot(kind, status) ==
    IF status < 0 THEN NoSlot
    ELSE [state |-> "registered", kind |-> kind, destroy_cb |-> FALSE, floating |-> FALSE]
sd_bus_slot_set_destroy_callback(s) == [s EXCEPT !.destroy_cb = TRUE]
sd_bus_slot_set_floating(s) == [s EXCEPT !.floating = TRUE]

(* The registration without the Err arm's Box::from_raw, and with an       *)
(* engine that keeps the slot it refused.                                  *)
register_NoRollback(kind, status) ==
    LET b == Box_into_raw
        s == sd_bus_new_slot(kind, status)
        r == ffi_result(status)
    IN  IF ~r.ok
        THEN [box |-> b, slot |-> s, res |-> r]
        ELSE [box |-> b,
              slot |-> sd_bus_slot_set_floating(sd_bus_slot_set_destroy_callback(s)),
              res |-> IoOk(<<>>)]
register_SlotKeptOnErr(kind, status) ==
    LET b == Box_into_raw
        s == sd_bus_new_slot(kind, 0)
        r == ffi_result(status)
    IN  IF ~r.ok
        THEN [box |-> Box_from_raw_drop(b, "rollback"), slot |-> s, res |-> r]
        ELSE [box |-> b,
              slot |-> sd_bus_slot_set_floating(sd_bus_slot_set_destroy_callback(s)),
              res |-> IoOk(<<>>)]

(* The part add_object, request_name_async and call_async share: box the   *)
(* callback, hand it to the engine, free it again when the engine refused, *)
(* otherwise install the destroy callback and make the slot floating.      *)
register(kind, status) ==
    LET b == Box_into_raw
        s == sd_bus_new_slot(kind, status)
        r == ffi_result(status)
    IN  IF ~r.ok
        THEN [box |-> Box_from_raw_drop(b, "rollback"), slot |-> s, res |-> r]
        ELSE [box |-> b,
              slot |-> sd_bus_slot_set_floating(sd_bus_slot_set_destroy_callback(s)),
              res |-> IoOk(<<>>)]

(* A registration that left nothing behind, neither a slot in the engine   *)
(* nor a live Box: its callback no longer exists.                          *)
Vacant(r) == r.slot.state = "none" /\ r.box.state = "freed"

(* raw_message_handler: rebuild the Box from userdata, call the closure,   *)
(* move an Err into ret_error, return 0; the Box is dropped on return.     *)
raw_message_handler(b, user_ok) ==
    [box |-> Box_from_raw_drop(Box_call(b), "handler"),
     ret |-> 0,
     ret_error |-> IF user_ok THEN "unset" ELSE "set"]

(* raw_destroy_cb_message_handler: rebuild the Box and drop it.            *)
raw_destroy_cb_message_handler(b) == Box_from_raw_drop(b, "destroy")

(* What `handler` records: the number of handler runs so far and, of the   *)
(* last one, the callback, the status returned, whether ret_error was      *)
(* filled in.                                                              *)
NoHandler == [runs |-> 0, cb |-> 0, ret |-> 0, ret_error |-> "unset"]

(* The callback id a new registration uses: the first unused one.          *)
HasFreeCallback == \E c \in Callbacks : box[c].state = "none"
FreeCallback ==
    CHOOSE c \in Callbacks :
        box[c].state = "none" /\ \A d \in 1..(c - 1) : box[d].state # "none"

-----------------------------------------------------------------------------
(* Part IV: Error / RawError values and the engine's allocations.          *)
(*                                                                         *)
(* A pointer is 0 (NULL), the id of an engine allocation (> 0), -2 (one of *)
(* the engine's constant errors) or -1 (a pointer that is none of these).  *)
(* The name and the message of one error are treated as one allocation.    *)
MaxErrors == 3
ErrIds == 1..MaxErrors
AllocIds == 1..MaxErrors

(* Default for RawError: name and message NULL, need_free 0.               *)
RawErrorDefault == [name |-> 0, need_free |-> 0]

NoErr == [state |-> "none", inner |-> RawErrorDefault]
NoAlloc == [state |-> "unused", frees |-> 0]
NoRetError == [state |-> "none", inner |-> RawErrorDefault]

(* The engine's view of an sd_bus_error: set, and dirty (anything in it).  *)
sd_bus_error_is_set(e) == e.name # 0
bus_error_is_dirty(e) == e.name # 0 \/ e.need_free # 0

HasUnusedAlloc(hp) == \E a \in AllocIds : hp[a].state = "unused"
UnusedAlloc(hp) ==
    CHOOSE a \in AllocIds :
        hp[a].state = "unused" /\ \A b \in 1..(a - 1) : hp[b].state # "unused"

(* free(p): nothing for NULL; an allocation is freed (again, when it       *)
(* already was); any other pointer is no allocation.                       *)
free(hp, bad, p) ==
    IF p = 0 THEN [heap |-> hp, bad |-> bad]
    ELSE IF p \in AllocIds
    THEN [heap |-> [hp EXCEPT ![p] = [state |-> "freed", frees |-> @.frees + 1]],
          bad |-> bad]
    ELSE [heap |-> hp, bad |-> TRUE]

(* sd_bus_error_set(e, name, message) on an unset error: the strings are   *)
(* duplicated and need_free set; without memory the error becomes the      *)
(* engine's constant out-of-memory error.                                  *)
sd_bus_error_set(hp, oom) ==
    IF oom \/ ~HasUnusedAlloc(hp)
    THEN [heap |-> hp, e |-> [name |-> -2, need_free |-> 0]]
    ELSE LET a == UnusedAlloc(hp)
         IN  [heap |-> [hp EXCEPT ![a] = [state |-> "live", frees |-> 0]],
              e |-> [name |-> a, need_free |-> 1]]

(* sd_bus_error_free(e): frees the strings when need_free is set and       *)
(* resets the structure.                                                   *)
sd_bus_error_free(hp, bad, e) ==
    IF e.need_free # 0 THEN free(hp, bad, e.name) ELSE [heap |-> hp, bad |-> bad]

(* sd_bus_error_copy(dest, e): nothing is written when e is unset or when  *)
(* dest is not empty; a constant error is copied as it is; any other is    *)
(* duplicated.                                                             *)
sd_bus_error_copy(hp, dest, e) ==
    IF ~sd_bus_error_is_set(e) THEN [heap |-> hp, dest |-> dest]
    ELSE IF bus_error_is_dirty(dest) THEN [heap |-> hp, dest |-> dest]
    ELSE IF e.need_free = 0 THEN [heap |-> hp, dest |-> e]
    ELSE LET r == sd_bus_error_set(hp, FALSE)
         IN  [heap |-> r.heap, dest |-> r.e]

(* What MaybeUninit::<sd_bus_error>::uninit() may hold: zeroes, or the     *)
(* bytes a structure left there - a pointer that is no allocation, or one  *)
(* to an allocation that was made before.                                  *)
UninitErrors(hp) ==
    {RawErrorDefault}
        \cup { [name |-> -1, need_free |-> n] : n \in {0, 1} }
        \cup { [name |-> a, need_free |-> 1] : a \in { b \in AllocIds : hp[b].state # "unused" } }

(* RawError::clone: sd_bus_error_copy into uninitialised memory, its       *)
(* status dropped, then assume_init().                                     *)
RawErrorClone(hp, uninit, e) == sd_bus_error_copy(hp, uninit, e)

(* Error::move_into: the inner structure is written over *dest and self is *)
(* forgotten (not dropped).                                                *)
move_into_Emptied(inner) == [state |-> "held", inner |-> RawErrorDefault]

move_into(inner) == [state |-> "held", inner |-> inner]

HasFreeErr == \E i \in ErrIds : errs[i].state = "none"
FreeErr ==
    CHOOSE i \in ErrIds :
        errs[i].state = "none" /\ \A j \in 1..(i - 1) : errs[j].state # "none"

IdleErr ==
    /\ errs = [i \in ErrIds |-> NoErr]
    /\ heap = [a \in AllocIds |-> NoAlloc]
    /\ ret_error = NoRetError
    /\ badfree = FALSE

-----------------------------------------------------------------------------
(* Part V: the connection's incoming work and process().                   *)
MaxQueue == 2
MaxMessages == 2

(* One unit of the engine's incoming work: a bookkeeping step, or message  *)
(* number `id`.                                                            *)
Step == [kind |-> "step", id |-> 0]
Msg(id) == [kind |-> "msg", id |-> id]
NoItem == [kind |-> "none", id |-> 0]

(* sd_bus_process(bus, &ret) / sd_bus_process_priority: -EBUSY (-16) when  *)
(* called from inside a handler, -ECONNRESET (-104) when the connection    *)
(* broke - `ret` is not written then (-1 stands for what it held before);  *)
(* 0 with ret = NULL when nothing is queued; otherwise the first unit is   *)
(* taken off the queue and the status is positive, with ret = NULL for a   *)
(* step and ret = the message otherwise.                                   *)
sd_bus_process_Reentrant(q, busy, fail) ==
    IF fail THEN [status |-> -104, ret |-> -1, queue |-> q, head |-> NoItem]
    ELSE IF q = <<>> THEN [status |-> 0, ret |-> 0, queue |-> q, head |-> NoItem]
    ELSE [status |-> 1, ret |-> Head(q).id, queue |-> Tail(q), head |-> Head(q)]

sd_bus_process(q, busy, fail) ==
    IF busy THEN [status |-> -16, ret |-> -1, queue |-> q, head |-> NoItem]
    ELSE IF fail THEN [status |-> -104, ret |-> -1, queue |-> q, head |-> NoItem]
    ELSE IF q = <<>> THEN [status |-> 0, ret |-> 0, queue |-> q, head |-> NoItem]
    ELSE [status |-> 1, ret |-> Head(q).id, queue |-> Tail(q), head |-> Head(q)]

(* BusRef::process / process_priority after the engine call: the Result    *)
(* built from the status and from what `ret` holds.                        *)
ProcResult(kind, errno, m) == [kind |-> kind, errno |-> errno, msg |-> m]

process_MessageDropped(status, ret) ==
    LET r == ffi_result(status)
    IN  IF ~r.ok THEN ProcResult("Err", r.errno, 0)
        ELSE IF r.val > 0 THEN ProcResult("SomeNone", 0, 0)
        ELSE ProcResult("None", 0, 0)

process_ProgressIsNone(status, ret) ==
    LET r == ffi_result(status)
    IN  IF ~r.ok THEN ProcResult("Err", r.errno, 0)
        ELSE IF r.val > 0 /\ ret # 0 THEN ProcResult("SomeMsg", 0, ret)
        ELSE ProcResult("None", 0, 0)

process(status, ret) ==
    LET r == ffi_result(status)
    IN  IF ~r.ok THEN ProcResult("Err", r.errno, 0)
        ELSE IF r.val > 0
        THEN IF ret = 0 THEN ProcResult("SomeNone", 0, 0)
             ELSE ProcResult("SomeMsg", 0, ret)
        ELSE ProcResult("None", 0, 0)

(* What `proc` records: the call, the engine's status and `ret`, the       *)
(* Result, how many units the engine took off its queue, whether the call  *)
(* came after a call_async or request_name_async that returned Err, the    *)
(* callback the engine ran in it (0: none), and what a process() call made *)
(* by that callback returned ("none": it made no such call).               *)
AsyncOps == {"call_async", "request_name_async"}
NoProc == [op |-> "none", status |-> 0, ret |-> 0,
           res |-> ProcResult("None", 0, 0), taken |-> 0,
           after_err |-> FALSE, ran |-> 0, nested |-> "none"]

IdleBus ==
    /\ rqueue = <<>>
    /\ received = 0
    /\ proc = NoProc
    /\ presented = <<>>
    /\ delivered = <<>>

-----------------------------------------------------------------------------
(* The values appended and read: one of each type, each with a bit pattern *)
(* that tells its type's width and signedness apart.                       *)
MaxArgs == 2

SampleOf(ty) ==
    CASE ty = "u8" -> 255
      [] ty = "i16" -> -32768
      [] ty = "u16" -> 65535
      [] ty = "i32" -> -2
      [] ty = "u32" -> 65536
      [] ty = "i64" -> -1
      [] ty = "u64" -> 2147483647
      [] ty = "bool" -> TRUE
      [] ty = "str" -> <<LowerA, Period, LowerA, NUL>>
      [] ty = "path" -> <<Slash, LowerA, NUL>>
Value(ty) == [ty |-> ty, val |-> SampleOf(ty)]

(* Bodies of messages that arrive from the engine already sealed.          *)
ReceivedBodies ==
    {<<>>} \cup { to_message(Value(ty), NewMessage, FALSE).msg.body : ty \in RustTypes }

(* What `last` records: the operation, its result, the engine's status,    *)
(* the message before the operation, for call what the returned Message    *)
(* wraps, for next whether a value came back, and for a registration the   *)
(* Box it allocated and the slot the engine made.                          *)
Did(op, ok, errno, status, before, reply) ==
    [op |-> op, ok |-> ok, errno |-> errno, status |-> status,
     before |-> before, reply |-> reply, box |-> NoBox, slot |-> NoSlot]
DidRegister(op, r, status, before) ==
    [op |-> op, ok |-> r.res.ok, errno |-> r.res.errno, status |-> status,
     before |-> before, reply |-> "none", box |-> r.box, slot |-> r.slot]
NoOp == Did("none", TRUE, 0, 0, NewMessage, "none")

(* The handles on the engine message: `refs` is the engine's reference     *)
(* count, `iter` is "nohandle" until Message::clone has made the second    *)
(* handle, then "none", or "live" while that handle's MessageIter is held. *)
NoClone == [refs |-> 1, iter |-> "nohandle"]

IdleNames == input = <<>> /\ called = "none" /\ res = NoResult
IdleMsg ==
    /\ msg = NewMessage
    /\ origin = "new"
    /\ iter = "none"
    /\ clone = NoClone
    /\ last = NoOp
    /\ appended = <<>>
    /\ got = <<>>
IdleSlots ==
    /\ box = [c \in Callbacks |-> NoBox]
    /\ slot = [c \in Callbacks |-> NoSlot]
    /\ handler = NoHandler
    /\ aborted = FALSE

-----------------------------------------------------------------------------
(* Part VI - accessors of a connection and of a message header.            *)

(* The connection (`conn`: "open", or "closed" once the peer is gone), the *)
(* header fields the engine has for a message (TRUE: the string is there,  *)
(* FALSE: the engine returns NULL), and the last accessor call with what   *)
(* became of it: "value", "absent" (None), "err" or "panic".               *)
HeaderFields == {"path", "interface", "member", "sender", "destination"}
NoAcc == [conn |-> "open", hdr |-> [f \in HeaderFields |-> FALSE],
          op |-> "none", outcome |-> "none"]

(* sd_bus_message_get_path / _interface / _member / _sender /              *)
(* _destination: the string, or NULL when the header has no such field.    *)
sd_bus_message_get(hdr, f) == IF hdr[f] THEN "ptr" ELSE "null"

(* sd_bus_get_fd: the descriptor, or -ENOTCONN (-107) on a closed          *)
(* connection.                                                             *)
sd_bus_get_fd(conn) == IF conn = "open" THEN 3 ELSE -107

(* MessageRef::path / interface / member: None for NULL.                   *)
OptionAccessor(p) == IF p = "null" THEN "absent" ELSE "value"

(* MessageRef::sender / destination: assert!(!p.is_null()).                *)
AssertingAccessor(p) == IF p = "null" THEN "panic" ELSE "value"

(* Result::unwrap.                                                         *)
unwrap(r) == IF r.ok THEN "value" ELSE "panic"

(* BusRef::fd.                                                             *)
fd(conn) == ffi_result(sd_bus_get_fd(conn))

(* AsRawFd for BusRef: self.fd().unwrap().                                 *)
as_raw_fd(conn) == unwrap(fd(conn))

(* The timeout of a blocking call.  `usec` is what call() was given: 0     *)
(* asks for the engine's default timeout, Infinite (u64::MAX) for none.    *)
MaxTimeout == 3
Infinite == -1
DefaultTimeout == 2
Timeouts == (0..MaxTimeout) \cup {Infinite}

(* What MessageRef::call hands to sd_bus_call as its timeout: `usec`       *)
(* itself.                                                                 *)
call_usec_Forever(usec) == Infinite
call_usec(usec) == usec

(* The engine's calc_elapse: the time after which sd_bus_call gives up.    *)
calc_elapse(usec) ==
    IF usec = Infinite THEN Infinite
    ELSE IF usec = 0 THEN DefaultTimeout
    ELSE usec

(* `pending`: "idle", "blocked" inside sd_bus_call with `left` units of    *)
(* time to go, or "returned"; `responsive` tells whether the destination   *)
(* ever answers.                                                           *)
NoPending == [state |-> "idle", usec |-> 0, left |-> 0, responsive |-> FALSE]

(* The journal before sd_journal_open: nothing to read.                    *)
NoRead == [op |-> "none", status |-> 0, threshold |-> 0, kind |-> "none", errno |-> 0, rec |-> {}]
NoJournal == [entries |-> <<>>, threshold |-> 0, pos |-> 0, out |-> NoRead]

IdleExt == acc = NoAcc /\ pending = NoPending /\ journal = NoJournal

-----------------------------------------------------------------------------
(* Operations on the message.  A MessageIter borrows the message mutably,  *)
(* so the operations on the message itself need iter = "none".             *)

MsgAppend(v, nomem) ==
    /\ iter = "none"
    /\ ~aborted
    /\ msg.sealed \/ Len(msg.body) < MaxArgs
    /\ LET r == to_message(v, msg, nomem)
       IN  /\ msg' = r.msg
           /\ last' = Did("append", r.res.ok, r.res.errno, r.status, msg, "none")
           /\ appended' = IF r.res.ok THEN Append(appended, v) ELSE appended
    /\ UNCHANGED <<origin, iter, clone, got, namesVars, extVars, busVars, errVars, slotVars>>

SendWith(op, outcome, want_cookie) ==
    /\ iter = "none"
    /\ ~aborted
    /\ LET r == send(msg, outcome, want_cookie)
       IN  /\ msg' = r.msg
           /\ last' = Did(op, r.res.ok, r.res.errno, r.status, msg, "none")
    /\ UNCHANGED <<origin, iter, clone, appended, got, namesVars, extVars, busVars, errVars, slotVars>>

Send(outcome) == SendWith("send", outcome, TRUE)
SendNoReply(outcome) == SendWith("send_no_reply", outcome, FALSE)
SendTo(outcome) == SendWith("send_to", outcome, TRUE)
SendToNoReply(outcome) == SendWith("send_to_no_reply", outcome, FALSE)

Call(outcome) ==
    /\ iter = "none"
    /\ ~aborted
    /\ LET r == call(msg, outcome)
       IN  /\ msg' = r.msg
           /\ last' = Did("call", r.ok, 0, r.status, msg, r.reply)
    /\ UNCHANGED <<origin, iter, clone, appended, got, namesVars, extVars, busVars, errVars, slotVars>>

(* call_async: the registration of Part III on the engine's reply slot;    *)
(* the engine seals the message as sd_bus_send does.                       *)
CallAsync(outcome) ==
    /\ iter = "none"
    /\ ~aborted
    /\ HasFreeCallback
    /\ LET e == sd_bus_send(msg, outcome)
           r == register("reply", e.status)
           c == FreeCallback
       IN  /\ msg' = e.msg
           /\ box' = IF Vacant(r) THEN box ELSE [box EXCEPT ![c] = r.box]
           /\ slot' = IF Vacant(r) THEN slot ELSE [slot EXCEPT ![c] = r.slot]
           /\ last' = DidRegister("call_async", r, e.status, msg)
    /\ UNCHANGED <<origin, iter, clone, appended, got, handler, aborted, namesVars, extVars, busVars, errVars>>

Iter ==
    /\ iter = "none"
    /\ ~aborted
    /\ LET r == iter_probe(msg)
       IN  /\ iter' = IF r.ok THEN "live" ELSE "none"
           /\ last' = Did("iter", r.ok, r.errno, IF r.ok THEN r.val ELSE -r.errno, msg, "none")
    /\ UNCHANGED <<msg, origin, clone, appended, got, namesVars, extVars, busVars, errVars, slotVars>>

(* The MessageIter goes out of scope.                                      *)
DropIter ==
    /\ iter = "live"
    /\ iter' = "none"
    /\ UNCHANGED <<msg, origin, clone, last, appended, got, namesVars, extVars, busVars, errVars, slotVars>>

IterNext(ty) ==
    /\ iter = "live"
    /\ LET r == read_basic_raw(msg, ty)
       IN  /\ msg' = r.msg
           /\ last' = Did("next", r.res.ok, r.res.errno, r.status, msg,
                          IF r.res.ok /\ r.res.val.some THEN "some" ELSE "none")
           /\ got' = IF r.res.ok /\ r.res.val.some THEN Append(got, r.res.val.v) ELSE got
    /\ UNCHANGED <<origin, iter, clone, appended, namesVars, extVars, busVars, errVars, slotVars>>

(* Whether the engine can run out of memory in an append: it allocates     *)
(* only after it has found the message open.                               *)
AllocOutcomes(m) == IF m.sealed THEN {FALSE} ELSE BOOLEAN

InitMsg ==
    /\ IdleNames
    /\ IdleSlots
    /\ IdleBus
    /\ IdleErr
    /\ IdleExt
    /\ \/ IdleMsg
       \/ /\ msg \in { [sealed |-> TRUE, body |-> b, rpos |-> 0] : b \in ReceivedBodies }
          /\ origin = "received"
          /\ iter = "none"
          /\ clone = NoClone
          /\ last = NoOp
          /\ appended = <<>>
          /\ got = <<>>

NextMsg ==
    \/ \E ty \in RustTypes, nomem \in AllocOutcomes(msg) : MsgAppend(Value(ty), nomem)
    \/ \E o \in SendOutcomes : Send(o)
    \/ \E o \in SendOutcomes : SendNoReply(o)
    \/ \E o \in SendOutcomes : SendTo(o)
    \/ \E o \in SendOutcomes : SendToNoReply(o)
    \/ \E o \in CallOutcomes : Call(o)
    \/ \E o \in SendOutcomes : CallAsync(o)
    \/ Iter
    \/ DropIter
    \/ \E ty \in RustTypes : IterNext(ty)

SpecMsg == InitMsg /\ [][NextMsg]_vars

-----------------------------------------------------------------------------
(* SpecIter: a received message, a second handle on it made by             *)
(* Message::clone, and the iterators of both handles.                      *)

(* sd_bus_message_ref / sd_bus_message_unref.                              *)
sd_bus_message_ref(refs) == refs + 1
sd_bus_message_unref(refs) == refs - 1

(* Message::clone (foreign_type!: fn clone = sd_bus_message_ref).  It      *)
(* borrows the original, so no MessageIter of the original is live.        *)
MsgClone ==
    /\ iter = "none"
    /\ clone.iter = "nohandle"
    /\ clone' = [refs |-> sd_bus_message_ref(clone.refs), iter |-> "none"]
    /\ UNCHANGED <<msg, origin, iter, last, appended, got, namesVars, extVars, busVars, errVars, slotVars>>

(* The second handle is dropped (fn drop = sd_bus_message_unref).          *)
DropClone ==
    /\ clone.iter = "none"
    /\ clone' = [refs |-> sd_bus_message_unref(clone.refs), iter |-> "nohandle"]
    /\ UNCHANGED <<msg, origin, iter, last, appended, got, namesVars, extVars, busVars, errVars, slotVars>>

(* iter() on the second handle: the same engine message is probed.         *)
CloneIter ==
    /\ clone.iter = "none"
    /\ LET r == iter_probe(msg)
       IN  /\ clone' = [clone EXCEPT !.iter = IF r.ok THEN "live" ELSE "none"]
           /\ last' = Did("iter", r.ok, r.errno, IF r.ok THEN r.val ELSE -r.errno, msg, "none")
    /\ UNCHANGED <<msg, origin, iter, appended, got, namesVars, extVars, busVars, errVars, slotVars>>

CloneDropIter ==
    /\ clone.iter = "live"
    /\ clone' = [clone EXCEPT !.iter = "none"]
    /\ UNCHANGED <<msg, origin, iter, last, appended, got, namesVars, extVars, busVars, errVars, slotVars>>

(* next() on the second handle's iterator: it reads through the same raw   *)
(* pointer, so it moves the one read position of the engine message.       *)
CloneIterNext(ty) ==
    /\ clone.iter = "live"
    /\ LET r == read_basic_raw(msg, ty)
       IN  /\ msg' = r.msg
           /\ last' = Did("next", r.res.ok, r.res.errno, r.status, msg,
                          IF r.res.ok /\ r.res.val.some THEN "some" ELSE "none")
           /\ got' = IF r.res.ok /\ r.res.val.some THEN Append(got, r.res.val.v) ELSE got
    /\ UNCHANGED <<origin, iter, clone, appended, namesVars, extVars, busVars, errVars, slotVars>>

(* peek_type() on the iterator of the first handle.  `last.reply` keeps   *)
(* the type it reported.                                                   *)
PeekType ==
    /\ iter = "live"
    /\ LET r == peek_type(msg)
       IN  /\ msg' = r.msg
           /\ last' = Did("peek_type", r.res.ok, r.res.errno, r.status, msg,
                          IF r.res.ok THEN r.res.val.t ELSE "none")
    /\ UNCHANGED <<origin, iter, clone, appended, got, namesVars, extVars, busVars, errVars, slotVars>>

(* Bodies of received messages that hold two values.                       *)
ReceivedPairs ==
    { a \o b : a, b \in ReceivedBodies \ {<<>>} }

InitIter ==
    /\ IdleNames
    /\ IdleSlots
    /\ IdleBus
    /\ IdleErr
    /\ IdleExt
    /\ msg \in { [sealed |-> TRUE, body |-> b, rpos |-> 0] : b \in ReceivedBodies \cup ReceivedPairs }
    /\ origin = "received"
    /\ iter = "none"
    /\ clone = NoClone
    /\ last = NoOp
    /\ appended = <<>>
    /\ got = <<>>

NextIter ==
    \/ Iter
    \/ DropIter
    \/ PeekType
    \/ \E ty \in RustTypes : IterNext(ty)
    \/ MsgClone
    \/ DropClone
    \/ CloneIter
    \/ CloneDropIter
    \/ \E ty \in RustTypes : CloneIterNext(ty)

SpecIter == InitIter /\ [][NextIter]_vars

-----------------------------------------------------------------------------
(* Operations that register a callback, and the engine's use of the slot.  *)

AddObject(status) ==
    /\ ~aborted
    /\ HasFreeCallback
    /\ LET r == register("object", status)
           c == FreeCallback
       IN  /\ box' = IF Vacant(r) THEN box ELSE [box EXCEPT ![c] = r.box]
           /\ slot' = IF Vacant(r) THEN slot ELSE [slot EXCEPT ![c] = r.slot]
           /\ last' = DidRegister("add_object", r, status, msg)
    /\ UNCHANGED <<handler, aborted, namesVars, extVars, busVars, errVars, msg, origin, iter, clone, appended, got>>

RequestNameAsync(status) ==
    /\ ~aborted
    /\ HasFreeCallback
    /\ LET r == register("name", status)
           c == FreeCallback
       IN  /\ box' = IF Vacant(r) THEN box ELSE [box EXCEPT ![c] = r.box]
           /\ slot' = IF Vacant(r) THEN slot ELSE [slot EXCEPT ![c] = r.slot]
           /\ last' = DidRegister("request_name_async", r, status, msg)
    /\ UNCHANGED <<handler, aborted, namesVars, extVars, busVars, errVars, msg, origin, iter, clone, appended, got>>

(* Inside sd_bus_process the engine dispatches a message to the slot's     *)
(* handler.  Rebuilding a Box from a pointer that has been freed is        *)
(* undefined: the process is killed, or the run goes on over the freed     *)
(* memory.                                                                 *)
EngineInvokeHandler(c, user_ok, killed) ==
    /\ slot[c].state = "registered"
    /\ handler.runs < MaxHandlerRuns
    /\ IF box[c].state = "freed" /\ killed
       THEN aborted' = TRUE /\ UNCHANGED <<box, handler>>
       ELSE LET r == raw_message_handler(box[c], user_ok)
            IN  /\ box' = [box EXCEPT ![c] = r.box]
                /\ handler' = [runs |-> handler.runs + 1, cb |-> c,
                               ret |-> r.ret, ret_error |-> r.ret_error]
                /\ UNCHANGED aborted

(* A message or a bookkeeping step arrives in the engine's queue.          *)
EngineReceive(is_msg) ==
    /\ ~aborted
    /\ Len(rqueue) < MaxQueue
    /\ received < MaxMessages
    /\ received' = received + 1
    /\ rqueue' = Append(rqueue, IF is_msg THEN Msg(received + 1) ELSE Step)
    /\ UNCHANGED <<proc, presented, delivered, namesVars, extVars, msgVars, slotVars, errVars>>

(* process() / process_priority(): one sd_bus_process call.  A message     *)
(* that matches the registered slot of callback `to` (0: it matches none)  *)
(* goes through that slot's handler first; the handler returns 0, so the   *)
(* engine hands the message on through `ret` unless the handler filled in  *)
(* ret_error, which the engine answers itself (the message then counts as  *)
(* handled and `ret` is NULL).  The callback may call process() itself     *)
(* (`nested`): the engine is busy then.                                    *)
ProcessWith(op, fail, to, user_ok, killed, nested) ==
    /\ ~aborted
    /\ LET e == sd_bus_process(rqueue, FALSE, fail)
           c == to
           dispatch == e.head.kind = "msg" /\ c # 0 /\ slot[c].state = "registered"
           dies == dispatch /\ box[c].state = "freed" /\ killed
           ret == IF dispatch /\ ~user_ok THEN 0 ELSE e.ret
           r == process(e.status, ret)
           n == sd_bus_process(e.queue, TRUE, FALSE)
       IN  \* the handler and its inputs are only drawn when a handler runs
           /\ ~dispatch => (c = 0 /\ user_ok /\ ~killed /\ ~nested)
           /\ (dispatch /\ box[c].state # "freed") => ~killed
           /\ IF dispatch
              THEN EngineInvokeHandler(c, user_ok, killed)
              ELSE UNCHANGED <<box, handler, aborted>>
           /\ IF dies
              THEN UNCHANGED busVars
              ELSE /\ rqueue' = e.queue
                   /\ proc' = [op |-> op, status |-> e.status, ret |-> ret, res |-> r,
                               taken |-> Len(rqueue) - Len(e.queue),
                               after_err |-> last.op \in AsyncOps /\ ~last.ok,
                               ran |-> IF dispatch THEN c ELSE 0,
                               nested |-> IF nested THEN process(n.status, n.ret).kind
                                          ELSE "none"]
                   /\ presented' = IF e.status > 0 /\ ret # 0
                                   THEN Append(presented, ret) ELSE presented
                   /\ delivered' = IF r.kind = "SomeMsg"
                                   THEN Append(delivered, r.msg) ELSE delivered
                   /\ UNCHANGED received
    /\ UNCHANGED <<slot, namesVars, extVars, msgVars, errVars>>

Process(fail, to, user_ok, killed, nested) ==
    ProcessWith("process", fail, to, user_ok, killed, nested)
ProcessPriority(fail, to, user_ok, killed, nested) ==
    ProcessWith("process_priority", fail, to, user_ok, killed, nested)

(* The engine tears the slot down and runs its destroy callback.  Freeing  *)
(* a pointer a second time is undefined in the same way.                   *)
EngineTeardownSlot(c, killed) ==
    /\ ~aborted
    /\ slot[c].state = "registered"
    /\ slot' = [slot EXCEPT ![c].state = "gone"]
    /\ IF ~slot[c].destroy_cb
       THEN UNCHANGED <<box, aborted>>
       ELSE IF box[c].state = "freed" /\ killed
       THEN aborted' = TRUE /\ UNCHANGED box
       ELSE /\ box' = [box EXCEPT ![c] = raw_destroy_cb_message_handler(box[c])]
            /\ UNCHANGED aborted
    /\ UNCHANGED <<handler, namesVars, extVars, busVars, errVars, msgVars>>

InitSlot == IdleNames /\ IdleMsg /\ IdleSlots /\ IdleBus /\ IdleErr /\ IdleExt

NextSlot ==
    \/ \E s \in {0, -12} : AddObject(s)
    \/ \E s \in {0, -12} : RequestNameAsync(s)
    \/ \E o \in SendOutcomes : CallAsync(o)
    \/ \E is_msg \in BOOLEAN : EngineReceive(is_msg)
    \/ \E fail, user_ok, killed, nested \in BOOLEAN, to \in 0..MaxCallbacks :
           Process(fail, to, user_ok, killed, nested)
    \/ \E fail, user_ok, killed, nested \in BOOLEAN, to \in 0..MaxCallbacks :
           ProcessPriority(fail, to, user_ok, killed, nested)
    \/ \E c \in Callbacks, killed \in BOOLEAN : EngineTeardownSlot(c, killed)

SpecSlot == InitSlot /\ [][NextSlot]_vars

-----------------------------------------------------------------------------
(* Operations on Error / RawError values.                                  *)

(* Error::new / RawError::with: a default RawError, then sd_bus_error_set. *)
ErrorNew(oom) ==
    /\ ~aborted
    /\ HasFreeErr
    /\ LET r == sd_bus_error_set(heap, oom)
       IN  /\ heap' = r.heap
           /\ errs' = [errs EXCEPT ![FreeErr] = [state |-> "live", inner |-> r.e]]
    /\ UNCHANGED <<ret_error, badfree, namesVars, extVars, msgVars, slotVars, busVars>>

(* RawError::new: an unset error.                                          *)
RawErrorNew ==
    /\ ~aborted
    /\ HasFreeErr
    /\ errs' = [errs EXCEPT ![FreeErr] = [state |-> "live", inner |-> RawErrorDefault]]
    /\ UNCHANGED <<heap, ret_error, badfree, namesVars, extVars, msgVars, slotVars, busVars>>

(* RawError::clone of value i, with `uninit` what the uninitialised        *)
(* destination holds.                                                      *)
ErrorClone(i, uninit) ==
    /\ ~aborted
    /\ HasFreeErr
    /\ errs[i].state = "live"
    /\ LET r == RawErrorClone(heap, uninit, errs[i].inner)
       IN  /\ heap' = r.heap
           /\ errs' = [errs EXCEPT ![FreeErr] = [state |-> "live", inner |-> r.dest]]
    /\ UNCHANGED <<ret_error, badfree, namesVars, extVars, msgVars, slotVars, busVars>>

(* Drop for RawError (and for the Error that holds it).                    *)
ErrorDrop(i) ==
    /\ ~aborted
    /\ errs[i].state = "live"
    /\ LET r == sd_bus_error_free(heap, badfree, errs[i].inner)
       IN  /\ heap' = r.heap
           /\ badfree' = r.bad
    /\ errs' = [errs EXCEPT ![i] = [state |-> "gone", inner |-> RawErrorDefault]]
    /\ UNCHANGED <<ret_error, namesVars, extVars, msgVars, slotVars, busVars>>

(* The engine invokes the handler of the registered callback and the       *)
(* closure returns Err(e) with e the Error value i: raw_message_handler    *)
(* moves e into the empty ret_error the engine passed in and returns 0.    *)
ErrorMoveInto(i, killed) ==
    /\ ~aborted
    /\ errs[i].state = "live"
    /\ ret_error.state = "none"
    /\ killed => box[1].state = "freed"
    /\ EngineInvokeHandler(1, FALSE, killed)
    /\ IF box[1].state = "freed" /\ killed
       THEN UNCHANGED <<errs, ret_error>>
       ELSE /\ ret_error' = move_into(errs[i].inner)
            /\ errs' = [errs EXCEPT ![i] = [state |-> "gone", inner |-> RawErrorDefault]]
    /\ UNCHANGED <<slot, heap, badfree, namesVars, extVars, msgVars, busVars>>

(* The same with a closure that returns Ok(()).                            *)
HandlerOk(killed) ==
    /\ ~aborted
    /\ killed => box[1].state = "freed"
    /\ EngineInvokeHandler(1, TRUE, killed)
    /\ UNCHANGED <<slot, errVars, namesVars, extVars, msgVars, busVars>>

(* Back in the engine: it has used ret_error for its reply and frees it.   *)
EngineFreeRetError ==
    /\ ~aborted
    /\ ret_error.state = "held"
    /\ LET r == sd_bus_error_free(heap, badfree, ret_error.inner)
       IN  /\ heap' = r.heap
           /\ badfree' = r.bad
    /\ ret_error' = NoRetError
    /\ UNCHANGED <<errs, namesVars, extVars, msgVars, slotVars, busVars>>

(* No error value exists yet; callback 1 has been registered by            *)
(* add_object.                                                             *)
InitErr ==
    /\ IdleNames /\ IdleMsg /\ IdleBus /\ IdleErr /\ IdleExt
    /\ LET r == register("object", 0)
       IN  /\ box = [c \in Callbacks |-> IF c = 1 THEN r.box ELSE NoBox]
           /\ slot = [c \in Callbacks |-> IF c = 1 THEN r.slot ELSE NoSlot]
    /\ handler = NoHandler
    /\ aborted = FALSE

NextErr ==
    \/ \E oom \in BOOLEAN : ErrorNew(oom)
    \/ RawErrorNew
    \/ \E i \in ErrIds : \E u \in UninitErrors(heap) : ErrorClone(i, u)
    \/ \E i \in ErrIds : ErrorDrop(i)
    \/ \E i \in ErrIds, killed \in BOOLEAN : ErrorMoveInto(i, killed)
    \/ \E killed \in BOOLEAN : HandlerOk(killed)
    \/ EngineFreeRetError

SpecErr == InitErr /\ [][NextErr]_vars

-----------------------------------------------------------------------------
(* SpecAcc: the accessors on a message with any set of header fields, on   *)
(* a connection the peer may close at any time.                            *)

EngineDisconnect ==
    /\ acc.conn = "open"
    /\ acc' = [acc EXCEPT !.conn = "closed"]
    /\ UNCHANGED <<pending, journal, namesVars, msgVars, slotVars, busVars, errVars>>

Accessor(op, outcome) ==
    /\ acc' = [acc EXCEPT !.op = op, !.outcome = outcome]
    /\ UNCHANGED <<pending, journal, namesVars, msgVars, slotVars, busVars, errVars>>

Path == Accessor("path", OptionAccessor(sd_bus_message_get(acc.hdr, "path")))
Interface == Accessor("interface", OptionAccessor(sd_bus_message_get(acc.hdr, "interface")))
Member == Accessor("member", OptionAccessor(sd_bus_message_get(acc.hdr, "member")))
Sender == Accessor("sender", AssertingAccessor(sd_bus_message_get(acc.hdr, "sender")))
Destination ==
    Accessor("destination", AssertingAccessor(sd_bus_message_get(acc.hdr, "destination")))
Fd == Accessor("fd", IF fd(acc.conn).ok THEN "value" ELSE "err")
AsRawFd == Accessor("as_raw_fd", as_raw_fd(acc.conn))

InitAcc ==
    /\ IdleNames /\ IdleMsg /\ IdleSlots /\ IdleBus /\ IdleErr
    /\ acc \in { [NoAcc EXCEPT !.hdr = h] : h \in [HeaderFields -> BOOLEAN] }
    /\ pending = NoPending
    /\ journal = NoJournal

NextAcc ==
    \/ EngineDisconnect
    \/ Path
    \/ Interface
    \/ Member
    \/ Sender
    \/ Destination
    \/ Fd
    \/ AsRawFd

SpecAcc == InitAcc /\ [][NextAcc]_vars

-----------------------------------------------------------------------------
(* SpecCall: one blocking call().  sd_bus_call seals and sends the         *)
(* message, then waits for the reply until the timeout has elapsed; the    *)
(* wait is modelled step by step so that time can pass.                    *)

CallBegin(usec) ==
    /\ pending.state = "idle"
    /\ iter = "none"
    /\ ~msg.sealed
    /\ pending' = [pending EXCEPT !.state = "blocked", !.usec = usec,
                                  !.left = calc_elapse(call_usec(usec))]
    /\ UNCHANGED <<acc, journal, namesVars, msgVars, slotVars, busVars, errVars>>

(* Time passes while sd_bus_call waits.                                    *)
CallTick ==
    /\ pending.state = "blocked"
    /\ pending.left > 0
    /\ pending' = [pending EXCEPT !.left = @ - 1]
    /\ UNCHANGED <<acc, journal, namesVars, msgVars, slotVars, busVars, errVars>>

(* sd_bus_call returns and call() builds its Result: the reply arrived,    *)
(* or the time is up.                                                      *)
CallReturn(outcome) ==
    /\ pending.state = "blocked"
    /\ \/ outcome = "reply" /\ pending.responsive
       \/ outcome = "timeout" /\ pending.left = 0
    /\ LET r == call(msg, outcome)
       IN  /\ msg' = r.msg
           /\ last' = Did("call", r.ok, 0, r.status, msg, r.reply)
    /\ pending' = [pending EXCEPT !.state = "returned"]
    /\ UNCHANGED <<acc, journal, origin, iter, clone, appended, got, namesVars, slotVars,
                   busVars, errVars>>

InitCall ==
    /\ IdleNames /\ IdleSlots /\ IdleBus /\ IdleErr
    /\ acc = NoAcc
    /\ journal = NoJournal
    /\ pending \in { [NoPending EXCEPT !.responsive = b] : b \in BOOLEAN }
    /\ msg \in { [sealed |-> FALSE, body |-> b, rpos |-> 0] : b \in ReceivedBodies }
    /\ origin = "new"
    /\ iter = "none"
    /\ clone = NoClone
    /\ last = NoOp
    /\ appended = <<>>
    /\ got = <<>>

NextCall ==
    \/ \E usec \in Timeouts : CallBegin(usec)
    \/ CallTick
    \/ \E o \in {"reply", "timeout"} : CallReturn(o)

SpecCall == InitCall /\ [][NextCall]_vars

(* Time does not stop, and sd_bus_call returns once it has a reason to.    *)
SpecCallLive ==
    /\ SpecCall
    /\ WF_vars(CallTick)
    /\ WF_vars(CallReturn("timeout"))

-----------------------------------------------------------------------------
(* Part VII - unit::escape_name (src/src/unit.rs), a pure function over    *)
(* the bytes of its argument; exercised by SpecUnit.                       *)

Backslash == 92
LowerX == 120

(* u8::is_ascii_alphanumeric.                                              *)
is_ascii_alphanumeric(b) == IsUpper(b) \/ IsLower(b) \/ IsDigit(b)

(* One digit of format!("{:02x}", b): lowercase hexadecimal.               *)
HexDigit(n) == IF n < 10 THEN 48 + n ELSE 87 + n

(* The arm of the `match b` taken for byte b at position index (from 0),   *)
(* as what it pushes onto `escaped`.                                       *)
EscapeArm_HyphenKept(index, b) ==
    IF b = Slash THEN <<Hyphen>>
    ELSE IF b = Period /\ 0 < index THEN <<b>>
    ELSE IF b = Underscore \/ b = Colon \/ b = Hyphen THEN <<b>>
    ELSE IF is_ascii_alphanumeric(b) THEN <<b>>
    ELSE <<Backslash, LowerX, HexDigit(b \div 16), HexDigit(b % 16)>>

EscapeArm(index, b) ==
    IF b = Slash THEN <<Hyphen>>
    ELSE IF b = Period /\ 0 < index THEN <<b>>
    ELSE IF b = Underscore \/ b = Colon THEN <<b>>
    ELSE IF is_ascii_alphanumeric(b) THEN <<b>>
    ELSE <<Backslash, LowerX, HexDigit(b \div 16), HexDigit(b % 16)>>

(* The `for (index, b) in s.bytes().enumerate()` loop over the first n     *)
(* bytes.                                                                  *)
RECURSIVE EscapeLoop(_, _)
EscapeLoop(s, n) ==
    IF n = 0 THEN <<>>
    ELSE EscapeLoop(s, n - 1) \o EscapeArm(n - 1, s[n])

escape_name(s) == EscapeLoop(s, Len(s))

(* The arguments: every string of up to MaxUnitLen of these bytes          *)
(* ('/', '.', '-', '\', 'x', '2', 'd', ':', '_', ' ', 0xc3, 'A'), and the  *)
(* samples of tests/unit.rs.                                               *)
MaxUnitLen == 3
UnitSigma == {Slash, Period, Hyphen, Backslash, LowerX, 50, 100, Colon, Underscore, 32, 195, 65}
UnitSamples ==
    { <<116, 101, 115, 116>>,                                   \* "test"
      <<97, 58, 98, 95, 99, 46, 100>>,                          \* "a:b_c.d"
      <<47, 102, 111, 111, 47>>,                                \* "/foo/"
      <<46, 102, 111, 111>>,                                    \* ".foo"
      <<72, 97, 108, 108, 195, 182, 99, 104, 101, 110, 44, 32,
        77, 101, 105, 115, 116, 101, 114>> }                    \* "Hallöchen, Meister"
UnitInputs ==
    UnitSamples \cup UNION { [1..n -> UnitSigma] : n \in 0..MaxUnitLen }

InitUnit ==
    /\ input \in UnitInputs
    /\ called = "none"
    /\ res = NoResult
    /\ IdleMsg /\ IdleSlots /\ IdleBus /\ IdleErr /\ IdleExt

CallEscapeName ==
    /\ called = "none"
    /\ called' = "escape_name"
    /\ res' = Ok(escape_name(input))
    /\ UNCHANGED <<input, extVars, msgVars, slotVars, busVars, errVars>>

NextUnit == CallEscapeName

SpecUnit == InitUnit /\ [][NextUnit]_vars

-----------------------------------------------------------------------------
(* Part VIII - journal::JournalEntryField (src/src/journal.rs): a borrowed *)
(* "NAME=value" byte string and the offset of its first '='; exercised by  *)
(* SpecField.  Offsets are Rust's, counted from 0.                         *)

Equals == 61

NotFound == [found |-> FALSE, offs |-> 0]
FoundAt(i) == [found |-> TRUE, offs |-> i]

(* memchr::memchr(needle, haystack): offset of the first occurrence.       *)
memchr_Last(needle, haystack) ==
    LET hits == { i \in 1..Len(haystack) : haystack[i] = needle }
    IN  IF hits = {} THEN NotFound
        ELSE FoundAt((CHOOSE i \in hits : \A j \in hits : j <= i) - 1)

memchr(needle, haystack) ==
    LET hits == { i \in 1..Len(haystack) : haystack[i] = needle }
    IN  IF hits = {} THEN NotFound
        ELSE FoundAt((CHOOSE i \in hits : \A j \in hits : i <= j) - 1)

(* impl From<&[u8]> for JournalEntryField.                                 *)
JournalEntryFieldFrom(data) ==
    LET m == memchr(Equals, data)
    IN  [data |-> data, eq_offs |-> IF m.found THEN m.offs ELSE Len(data)]

(* JournalEntryField::data, name and value.                                *)
FieldData(f) == f.data
FieldName(f) == SubSeq(f.data, 1, f.eq_offs)
FieldValue(f) ==
    IF f.eq_offs # Len(f.data)
    THEN Some(SubSeq(f.data, f.eq_offs + 2, Len(f.data)))
    ELSE None

(* The byte strings a field is built from: every string of up to           *)
(* MaxFieldLen of '=', 'H', 'I', 'f', 'o', and b"HI=foo" of                *)
(* tests/journal.rs.                                                       *)
MaxFieldLen == 3
FieldSigma == {Equals, 72, 73, 102, 111}
FieldSample == <<72, 73, 61, 102, 111, 111>>
FieldInputs == {FieldSample} \cup UNION { [1..n -> FieldSigma] : n \in 0..MaxFieldLen }

InitField ==
    /\ input \in FieldInputs
    /\ called = "none"
    /\ res = NoResult
    /\ IdleMsg /\ IdleSlots /\ IdleBus /\ IdleErr /\ IdleExt

(* `let f: JournalEntryField = d.into()` followed by the three accessors.  *)
CallFieldFrom ==
    /\ called = "none"
    /\ called' = "field"
    /\ LET f == JournalEntryFieldFrom(input)
       IN  res' = [data |-> FieldData(f), name |-> FieldName(f), value |-> FieldValue(f)]
    /\ UNCHANGED <<input, extVars, msgVars, slotVars, busVars, errVars>>

NextField == CallFieldFrom

SpecField == InitField /\ [][NextField]_vars

-----------------------------------------------------------------------------
(* Part IX - the accessors of RawError (src/src/bus/mod.rs).  Here a       *)
(* pointer is the memory it points at (a C string with its NUL), and NULL  *)
(* is NullPtr; exercised by SpecRawErr.                                    *)

NullPtr == <<>>

(* RawError::default().                                                    *)
RawErrorUnset == [name |-> NullPtr, message |-> NullPtr, need_free |-> 0]

(* RawError::with(name, message): sd_bus_error_set duplicates both strings *)
(* into the default structure; a None message stays NULL.                  *)
RawErrorWith(name, message) == [name |-> name, message |-> message, need_free |-> 1]

(* RawError::is_set, name and message.                                     *)
is_set(e) == e.name # NullPtr

RawErrorName(e) ==
    IF is_set(e) THEN Some(InterfaceNameFromPtrUnchecked(e.name)) ELSE None

RawErrorMessage(e) ==
    IF is_set(e) THEN Some(Utf8CStrFromPtr(e.name)) ELSE None

(* The strings an error is made of: every string of up to MaxErrLen of     *)
(* 'a', '.', 'b', with its NUL.                                            *)
MaxErrLen == 2
ErrSigma == {LowerA, Period, 98}
ErrStrings == { b \o <<NUL>> : b \in UNION { [1..n -> ErrSigma] : n \in 0..MaxErrLen } }

InitRawErr ==
    /\ input \in {RawErrorUnset}
                   \cup { RawErrorWith(n, m) : n \in ErrStrings, m \in ErrStrings \cup {NullPtr} }
    /\ called = "none"
    /\ res = NoResult
    /\ IdleMsg /\ IdleSlots /\ IdleBus /\ IdleErr /\ IdleExt

CallRawErrorName ==
    /\ called = "none"
    /\ called' = "name"
    /\ res' = RawErrorName(input)
    /\ UNCHANGED <<input, extVars, msgVars, slotVars, busVars, errVars>>

CallRawErrorMessage ==
    /\ called = "none"
    /\ called' = "message"
    /\ res' = RawErrorMessage(input)
    /\ UNCHANGED <<input, extVars, msgVars, slotVars, busVars, errVars>>

NextRawErr ==
    \/ CallRawErrorName
    \/ CallRawErrorMessage

SpecRawErr == InitRawErr /\ [][NextRawErr]_vars

-----------------------------------------------------------------------------
(* Part X - reading whole entries from the journal (src/src/journal.rs):   *)
(* next_entry, previous_entry and collect_entry over the engine's read     *)
(* pointer and data enumeration; exercised by SpecJournal.                 *)
(*                                                                         *)
(* `journal.pos` is the entry the read pointer is on (0: before the        *)
(* first), `journal.threshold` the data threshold (0: none), `journal.out` *)
(* the last read: the operation, the engine's status for moving the read   *)
(* pointer, the threshold in force and what was returned.                  *)
MaxFields == 2
MaxEntries == 2
MaxThreshold == 2

(* The fields stored in the journal, each "NAME=value":                    *)
(* "A=x", "A=y", "B=".                                                     *)
JournalFields == { <<65, 61, 120>>, <<65, 61, 121>>, <<66, 61>> }
JournalEntries == UNION { [1..n -> JournalFields] : n \in 0..MaxFields }
Journals == UNION { [1..n -> JournalEntries] : n \in 0..MaxEntries }

(* sd_journal_next / sd_journal_previous: 1 when the read pointer moved to *)
(* another entry, 0 when there is none in that direction, -EBADMSG (-74)   *)
(* when the file cannot be read.                                           *)
sd_journal_next(j, fail) ==
    IF fail THEN [status |-> -74, pos |-> j.pos]
    ELSE IF j.pos < Len(j.entries) THEN [status |-> 1, pos |-> j.pos + 1]
    ELSE [status |-> 0, pos |-> j.pos]
sd_journal_previous(j, fail) ==
    IF fail THEN [status |-> -74, pos |-> j.pos]
    ELSE IF j.pos > 1 THEN [status |-> 1, pos |-> j.pos - 1]
    ELSE [status |-> 0, pos |-> j.pos]

(* sd_journal_enumerate_data after `idx` fields have been enumerated: 0 at *)
(* the end of the entry, else 1 and the field, cut to the data threshold   *)
(* when one is set; -EBADMSG when the object cannot be read.               *)
sd_journal_enumerate_data(entry, idx, threshold, fail) ==
    IF fail THEN [status |-> -74, data |-> <<>>]
    ELSE IF idx >= Len(entry) THEN [status |-> 0, data |-> <<>>]
    ELSE LET d == entry[idx + 1]
         IN  [status |-> 1,
              data |-> IF threshold = 0 \/ Len(d) <= threshold THEN d
                       ELSE SubSeq(d, 1, threshold)]

(* Journal::enumerate_data.                                                *)
enumerate_data(entry, idx, threshold, fail) ==
    LET e == sd_journal_enumerate_data(entry, idx, threshold, fail)
        r == ffi_result(e.status)
    IN  IF ~r.ok THEN r
        ELSE IF r.val = 0 THEN IoOk(None)
        ELSE IoOk(Some(JournalEntryFieldFrom(e.data)))

(* String::from_utf8_lossy(..).into() on bytes without multi-byte          *)
(* sequences: ASCII is kept, any other byte becomes U+FFFD.                *)
RECURSIVE from_utf8_lossy(_)
from_utf8_lossy(b) ==
    IF b = <<>> THEN <<>>
    ELSE (IF Head(b) < 128 THEN <<Head(b)>> ELSE <<239, 191, 189>>)
             \o from_utf8_lossy(Tail(b))

(* BTreeMap::insert: the value under an existing key is replaced.          *)
insert(ret, k, v) == { p \in ret : p[1] # k } \cup {<<k, v>>}

(* What a read returns: Ok(None), Ok(Some(record)), Err(errno), or the     *)
(* thread panics.                                                          *)
ReadNone == [kind |-> "None", errno |-> 0, rec |-> {}]
ReadSome(rec) == [kind |-> "Some", errno |-> 0, rec |-> rec]
ReadErr(errno) == [kind |-> "Err", errno |-> errno, rec |-> {}]
ReadPanic == [kind |-> "panic", errno |-> 0, rec |-> {}]

(* The `while let Some(d) = self.enumerate_data()?` loop of collect_entry  *)
(* with `idx` fields done; the engine fails at the failAt-th call (0:      *)
(* never).  d.value().unwrap() panics on None.                             *)
RECURSIVE collect_loop(_, _, _, _, _)
collect_loop(entry, threshold, failAt, idx, ret) ==
    LET r == enumerate_data(entry, idx, threshold, failAt = idx + 1)
    IN  IF ~r.ok THEN ReadErr(r.errno)
        ELSE IF ~r.val.some THEN ReadSome(ret)
        ELSE LET d == r.val.v
                 v == FieldValue(d)
             IN  IF ~v.some THEN ReadPanic
                 ELSE collect_loop(entry, threshold, failAt, idx + 1,
                          insert(ret, from_utf8_lossy(FieldName(d)), from_utf8_lossy(v.v)))

(* Journal::collect_entry: restart_data, then the loop from the first      *)
(* field.                                                                  *)
collect_entry(entry, threshold, failAt) == collect_loop(entry, threshold, failAt, 0, {})

(* Journal::next_entry / previous_entry after the engine has moved the     *)
(* read pointer (`n` is what it returned).                                 *)
read_entry(j, n, failAt) ==
    LET r == ffi_result(n.status)
    IN  IF ~r.ok THEN ReadErr(r.errno)
        ELSE IF r.val = 0 THEN ReadNone
        ELSE collect_entry(j.entries[n.pos], j.threshold, failAt)
next_entry(j, fail, failAt) == read_entry(j, sd_journal_next(j, fail), failAt)
previous_entry(j, fail, failAt) == read_entry(j, sd_journal_previous(j, fail), failAt)

(* Journal::set_data_threshold.                                            *)
SetDataThreshold(t) ==
    /\ journal.out.kind # "panic"
    /\ journal.threshold # t
    /\ journal' = [journal EXCEPT !.threshold = t]
    /\ UNCHANGED <<acc, pending, namesVars, msgVars, slotVars, busVars, errVars>>

ReadEntry(op, n, out) ==
    /\ journal.out.kind # "panic"
    /\ journal' = [journal EXCEPT !.pos = n.pos,
                                  !.out = [op |-> op, status |-> n.status,
                                           threshold |-> journal.threshold,
                                           kind |-> out.kind, errno |-> out.errno,
                                           rec |-> out.rec]]
    /\ UNCHANGED <<acc, pending, namesVars, msgVars, slotVars, busVars, errVars>>

NextEntry(fail, failAt) ==
    /\ fail => failAt = 0
    /\ ReadEntry("next_entry", sd_journal_next(journal, fail), next_entry(journal, fail, failAt))

PreviousEntry(fail, failAt) ==
    /\ fail => failAt = 0
    /\ ReadEntry("previous_entry", sd_journal_previous(journal, fail),
                 previous_entry(journal, fail, failAt))

InitJournal ==
    /\ IdleNames /\ IdleMsg /\ IdleSlots /\ IdleBus /\ IdleErr
    /\ acc = NoAcc
    /\ pending = NoPending
    /\ journal \in { [NoJournal EXCEPT !.entries = es] : es \in Journals }

NextJournal ==
    \/ \E t \in 0..MaxThreshold : SetDataThreshold(t)
    \/ \E fail \in BOOLEAN, failAt \in 0..(MaxFields + 1) : NextEntry(fail, failAt)
    \/ \E fail \in BOOLEAN, failAt \in 0..(MaxFields + 1) : PreviousEntry(fail, failAt)

SpecJournal == InitJournal /\ [][NextJournal]_vars

-----------------------------------------------------------------------------
(* SpecNames: one call of one validator on one input.                      *)
InitNames ==
    /\ input \in Inputs
    /\ called = "none"
    /\ res = NoResult
    /\ IdleMsg
    /\ IdleSlots
    /\ IdleBus
    /\ IdleErr
    /\ IdleExt

CallObjectPathFromBytes ==
    /\ called = "none"
    /\ called' = "ObjectPath"
    /\ res' = ObjectPathFromBytes(input)
    /\ UNCHANGED <<input, extVars, msgVars, slotVars, busVars, errVars>>

CallInterfaceNameFromBytes ==
    /\ called = "none"
    /\ called' = "InterfaceName"
    /\ res' = InterfaceNameFromBytes(input)
    /\ UNCHANGED <<input, extVars, msgVars, slotVars, busVars, errVars>>

CallBusNameFromBytes ==
    /\ called = "none"
    /\ called' = "BusName"
    /\ res' = BusNameFromBytes(input)
    /\ UNCHANGED <<input, extVars, msgVars, slotVars, busVars, errVars>>

CallMemberNameFromBytes ==
    /\ called = "none"
    /\ called' = "MemberName"
    /\ res' = MemberNameFromBytes(input)
    /\ UNCHANGED <<input, extVars, msgVars, slotVars, busVars, errVars>>

NextNames ==
    \/ CallObjectPathFromBytes
    \/ CallInterfaceNameFromBytes
    \/ CallBusNameFromBytes
    \/ CallMemberNameFromBytes

SpecNames == InitNames /\ [][NextNames]_vars

-----------------------------------------------------------------------------
(* SpecPtr: one call of one from_ptr_unchecked on memory the engine        *)
(* returned: bytes with a NUL somewhere (what follows the first NUL is     *)
(* whatever lies behind the string).                                       *)
HasNul(b) == \E i \in 1..Len(b) : b[i] = NUL

InitPtr ==
    /\ input \in { b \in ShortInputs \cup TestVectors : HasNul(b) }
    /\ called = "none"
    /\ res = NoResult
    /\ IdleMsg
    /\ IdleSlots
    /\ IdleBus
    /\ IdleErr
    /\ IdleExt

CallFromPtrUnchecked(type, wrapped) ==
    /\ called = "none"
    /\ called' = type
    /\ res' = Ok(wrapped)
    /\ UNCHANGED <<input, extVars, msgVars, slotVars, busVars, errVars>>

CallObjectPathFromPtrUnchecked ==
    CallFromPtrUnchecked("ObjectPath", ObjectPathFromPtrUnchecked(input))
CallInterfaceNameFromPtrUnchecked ==
    CallFromPtrUnchecked("InterfaceName", InterfaceNameFromPtrUnchecked(input))
CallBusNameFromPtrUnchecked ==
    CallFromPtrUnchecked("BusName", BusNameFromPtrUnchecked(input))
CallMemberNameFromPtrUnchecked ==
    CallFromPtrUnchecked("MemberName", MemberNameFromPtrUnchecked(input))

NextPtr ==
    \/ CallObjectPathFromPtrUnchecked
    \/ CallInterfaceNameFromPtrUnchecked
    \/ CallBusNameFromPtrUnchecked
    \/ CallMemberNameFromPtrUnchecked

SpecPtr == InitPtr /\ [][NextPtr]_vars

-----------------------------------------------------------------------------
(* Claims about the message and the callbacks.                             *)

SealingOps == {"send", "send_no_reply", "send_to", "send_to_no_reply", "call", "call_async"}

SameValue(a, b) == a.ty = b.ty /\ a.val = b.val

(* C1: every callback registered successfully through add_object,          *)
(* request_name_async or call_async has its heap allocation freed at most  *)
(* once, only by the slot's destroy callback (exactly once when the slot   *)
(* is gone), never by a handler invocation, and never used after freed.    *)
C1_FreedOnceByDestroyCallback ==
    \A c \in Callbacks :
        slot[c].state # "none" =>
            /\ box[c].frees <= 1
            /\ box[c].freedBy \subseteq {"destroy"}
            /\ ~box[c].uaf
            /\ slot[c].state = "gone" => box[c].frees = 1
            /\ ~aborted

(* C2: whenever the engine's call operation returns a negative status,     *)
(* Message::call returns Err and no Message.                               *)
C2_CallFailureIsErr ==
    (last.op = "call" /\ last.status < 0) =>
        (~last.ok /\ last.reply = "none")

(* C3: a message is sealed after each of the six sealing operations the    *)
(* engine carried out and when it was received from the engine, and an     *)
(* append on a sealed message returns Err and leaves the message (contents *)
(* and read position) as it was.                                           *)
C3_SealedAppendFails ==
    /\ (last.op \in SealingOps /\ last.status >= 0) => msg.sealed
    /\ origin = "received" => msg.sealed
    /\ (last.op = "append" /\ last.before.sealed) =>
           (~last.ok /\ msg = last.before /\ msg.sealed)

C3_Witness ==
    /\ origin = "new"
    /\ last.op = "append"
    /\ last.before.sealed
    /\ ~last.ok
    /\ Len(msg.body) = MaxArgs
    /\ msg.rpos > 0

(* C4: the values next() returns from a message that was created open are  *)
(* the values appended to it, in the same order, and next() returns None   *)
(* only after the last of them.                                            *)
C4_AppendReadRoundTrip ==
    origin = "new" =>
        /\ Len(got) <= Len(appended)
        /\ \A i \in 1..Len(got) : SameValue(got[i], appended[i])
        /\ (last.op = "next" /\ last.ok /\ last.reply = "none") =>
               Len(got) = Len(appended)

(* The same round trip for messages that hold no object path.              *)
C4_RoundTripWithoutPaths ==
    (origin = "new" /\ \A i \in 1..Len(appended) : appended[i].ty # "path") =>
        /\ Len(got) <= Len(appended)
        /\ \A i \in 1..Len(got) : SameValue(got[i], appended[i])
        /\ (last.op = "next" /\ last.ok /\ last.reply = "none") =>
               Len(got) = Len(appended)

C4_FullyReadWithoutPaths ==
    /\ origin = "new"
    /\ Len(appended) = MaxArgs
    /\ \A i \in 1..Len(appended) : appended[i].ty # "path"
    /\ last.op = "next" /\ last.ok /\ last.reply = "none"

-----------------------------------------------------------------------------
(* Vocabulary of the claims about the validators.                          *)

(* b is one NUL-terminated string: its last byte is NUL, no earlier one.   *)
OnlyNulIsLast(b) ==
    /\ Len(b) >= 1
    /\ b[Len(b)] = NUL
    /\ \A i \in 1..(Len(b) - 1) : b[i] # NUL

(* The bytes before the terminating NUL.                                   *)
NameOf(b) == SubSeq(b, 1, Len(b) - 1)

(* The number of bytes before the first NUL (all of b when it has none).   *)
BytesBeforeNul(b) ==
    LET nuls == {i \in 1..Len(b) : b[i] = NUL}
    IN  IF nuls = {} THEN Len(b)
        ELSE (CHOOSE i \in nuls : \A j \in nuls : i <= j) - 1

IsAlpha_(c) == IsUpper(c) \/ IsLower(c) \/ c = Underscore

(* n is two or more non-empty elements separated by '.', every byte of an  *)
(* element taken from the set chars.                                       *)
DottedElements(n, IsElemChar(_)) ==
    /\ Len(n) >= 1
    /\ \A i \in 1..Len(n) : n[i] = Period \/ IsElemChar(n[i])
    /\ \E i \in 1..Len(n) : n[i] = Period
    /\ n[1] # Period
    /\ n[Len(n)] # Period
    /\ \A i \in 1..(Len(n) - 1) : ~(n[i] = Period /\ n[i + 1] = Period)

(* The first byte of some element of n is a digit.                         *)
SomeElementStartsWithDigit(n) ==
    /\ Len(n) >= 1
    /\ \/ IsDigit(n[1])
       \/ \E i \in 1..(Len(n) - 1) : n[i] = Period /\ IsDigit(n[i + 1])

IsInterfaceChar(c) == IsAlpha_(c) \/ IsDigit(c)
IsBusChar(c) == IsAlpha_(c) \/ IsDigit(c) \/ c = Hyphen

InterfaceGrammar(n) ==
    /\ DottedElements(n, IsInterfaceChar)
    /\ ~SomeElementStartsWithDigit(n)

BusGrammar(n) ==
    LET unique == Len(n) >= 1 /\ n[1] = Colon
        body == IF unique THEN Tail(n) ELSE n
    IN  /\ DottedElements(body, IsBusChar)
        /\ unique \/ ~SomeElementStartsWithDigit(body)

MemberGrammar(n) ==
    /\ Len(n) >= 1
    /\ \A i \in 1..Len(n) : IsInterfaceChar(n[i])
    /\ ~IsDigit(n[1])

-----------------------------------------------------------------------------
(* C5: every byte string accepted by ObjectPath::from_bytes starts with    *)
(* '/', contains no two consecutive '/' anywhere, and either equals "/\0"  *)
(* or does not end in "/\0".                                               *)
C5_AcceptedPathShape ==
    (called = "ObjectPath" /\ res.ok) =>
        /\ input[1] = Slash
        /\ \A i \in 1..(Len(input) - 1) : ~(input[i] = Slash /\ input[i + 1] = Slash)
        /\ \/ input = <<Slash, NUL>>
           \/ ~(Len(input) >= 2 /\ input[Len(input) - 1] = Slash
                               /\ input[Len(input)] = NUL)

(* C6: each of the four validators returns Ok only if the last byte of b   *)
(* is NUL and no earlier byte is NUL, so the wrapped buffer is exactly one *)
(* NUL-terminated string.                                                  *)
C6_AcceptedIsOneCString ==
    (called # "none" /\ res.ok) => (res.buf = input /\ OnlyNulIsLast(res.buf))

(* C7 as stated: for every b whose only NUL is its last byte,              *)
(* BusName::from_bytes(b) is Ok exactly when the name before the NUL has   *)
(* two or more non-empty dot-separated elements of [A-Za-z0-9_-] after an  *)
(* optional leading ':', and either starts with ':' or has no element      *)
(* beginning with a digit.                                                 *)
C7_BusNameGrammar_AnyLength ==
    (called = "BusName" /\ OnlyNulIsLast(input)) =>
        (res.ok <=> BusGrammar(NameOf(input)))

(* C7 amended: the same equivalence for every such b of at most 256 bytes  *)
(* (a name of at most 255 bytes and its NUL).                              *)
C7_BusNameGrammar ==
    (called = "BusName" /\ OnlyNulIsLast(input) /\ Len(input) <= 256) =>
        (res.ok <=> BusGrammar(NameOf(input)))

(* A unique name with an element that begins with a digit was accepted.    *)
C7_Witness ==
    /\ called = "BusName"
    /\ res.ok
    /\ OnlyNulIsLast(input)
    /\ input[1] = Colon
    /\ SomeElementStartsWithDigit(Tail(NameOf(input)))

(* C8: for every b whose only NUL is its last byte,                        *)
(* InterfaceName::from_bytes(b) is Ok exactly when the bytes before the    *)
(* NUL are two or more dot-separated elements, each non-empty, made of     *)
(* [A-Za-z0-9_] and not starting with a digit; otherwise it is Err.        *)
C8_InterfaceNameGrammar ==
    (called = "InterfaceName" /\ OnlyNulIsLast(input)) =>
        (res.ok <=> InterfaceGrammar(NameOf(input)))

(* An interface name with a digit inside an element was accepted.          *)
C8_Witness ==
    /\ called = "InterfaceName"
    /\ res.ok
    /\ OnlyNulIsLast(input)
    /\ \E i \in 1..Len(input) : IsDigit(input[i])

(* C9: for every b of at most 256 bytes whose only NUL is its last byte,   *)
(* MemberName::from_bytes(b) is Ok exactly when the bytes before the NUL   *)
(* are at least one byte, only [A-Za-z0-9_], and do not start with a       *)
(* digit; any '.' causes rejection.                                        *)
C9_MemberNameGrammar ==
    (called = "MemberName" /\ OnlyNulIsLast(input) /\ Len(input) <= 256) =>
        /\ res.ok <=> MemberGrammar(NameOf(input))
        /\ (\E i \in 1..Len(input) : input[i] = Period) => ~res.ok

(* A member name was accepted, and one holding a '.' is the input of a     *)
(* rejected call (two states; the witness is the accepted one with a       *)
(* digit).                                                                 *)
C9_Witness ==
    /\ called = "MemberName"
    /\ res.ok
    /\ OnlyNulIsLast(input)
    /\ \E i \in 1..Len(input) : IsDigit(input[i])

-----------------------------------------------------------------------------
(* C11: every wrapper built by from_ptr_unchecked from an engine-returned  *)
(* C string wraps that string's bytes including the terminating NUL, for   *)
(* ObjectPath, InterfaceName, BusName and MemberName alike.                *)
C11_PtrWrapsTerminatingNul ==
    called # "none" =>
        /\ res.buf = CStrAt(input)
        /\ OnlyNulIsLast(res.buf)

(* The one wrapper for which it holds.                                     *)
C11_InterfaceNameKeepsNul ==
    called = "InterfaceName" => (res.buf = CStrAt(input) /\ OnlyNulIsLast(res.buf))

-----------------------------------------------------------------------------
(* C12: over creating, cloning, moving into ret_error and dropping error   *)
(* values, every engine allocation is freed at most once, free is never    *)
(* called on anything else, and once no value is left and the engine has   *)
(* released ret_error no allocation is still live.                         *)
C12_ErrorFreedExactlyOnce ==
    /\ \A a \in AllocIds : heap[a].frees <= 1
    /\ ~badfree
    /\ ((\A i \in ErrIds : errs[i].state # "live") /\ ret_error.state = "none") =>
           \A a \in AllocIds : heap[a].state # "live"

-----------------------------------------------------------------------------
(* C13: at most one MessageIter is live for one engine message, also when  *)
(* the Message handle has been cloned.                                     *)
C13_OneLiveIterPerMessage == ~(iter = "live" /\ clone.iter = "live")

-----------------------------------------------------------------------------
(* C14: next() gives Ok(Some(v)) exactly when the engine read a value, and *)
(* the read position has then moved on by one; it gives Ok(None) only at   *)
(* the end of the body, where nothing moves; and a value of another type   *)
(* than the one asked for gives Err(ENXIO), never None, and nothing moves. *)
AtEnd(m) == m.rpos >= Len(m.body)
C14_NextSomeNoneErr ==
    last.op = "next" =>
        LET b == last.before
        IN  /\ last.reply = "some" =>
                  /\ last.ok /\ last.status = 1
                  /\ ~AtEnd(b)
                  /\ msg.rpos = b.rpos + 1
                  /\ dbus_type(got[Len(got)].ty) = b.body[b.rpos + 1].tag
            /\ (last.ok /\ last.reply = "none") =>
                  AtEnd(b) /\ last.status = 0 /\ msg = b
            /\ ~AtEnd(b) => (last.ok <=> last.reply = "some")
            /\ ~last.ok =>
                  last.status = -6 /\ last.errno = 6 /\ ~AtEnd(b) /\ msg = b
C14_Witness ==
    /\ last.op = "next"
    /\ ~last.ok
    /\ last.status = -6
    /\ last.before.rpos > 0

-----------------------------------------------------------------------------
(* C15: when the engine refuses a registration made by add_object,         *)
(* request_name_async or call_async, the call returns Err with the negated *)
(* status, the Box of the callback has been freed exactly once, by the     *)
(* call itself, the engine holds no slot and no destroy callback for it,   *)
(* and no callback id stays in use for it.                                 *)
RegisterOps == {"add_object", "request_name_async", "call_async"}
C15_RejectedRegistrationReclaimed ==
    /\ (last.op \in RegisterOps /\ last.status < 0) =>
           /\ ~last.ok /\ last.errno = -last.status
           /\ last.box.state = "freed"
           /\ last.box.frees = 1
           /\ last.box.freedBy = {"rollback"}
           /\ last.slot = NoSlot
    /\ \A c \in Callbacks :
           /\ "rollback" \notin box[c].freedBy
           /\ box[c].state = "live" => slot[c].state # "none"
C15_Witness ==
    /\ last.op = "request_name_async"
    /\ last.status < 0
    /\ last.box.frees = 1
    /\ \E c \in Callbacks : box[c].state = "live"

(* C16: a call_async or request_name_async that returned Err left no slot  *)
(* in the engine, and no handler run ever uses a callback whose            *)
(* registration was rolled back: the callbacks that run in process() are   *)
(* those of registrations that returned Ok.                                *)
C16_FailedAsyncNeverInvoked ==
    /\ (last.op \in AsyncOps /\ ~last.ok) =>
           /\ last.slot.state = "none"
           /\ "handler" \notin last.box.freedBy
           /\ ~last.box.uaf
    /\ \A c \in Callbacks :
           "rollback" \in box[c].freedBy =>
               ("handler" \notin box[c].freedBy /\ ~box[c].uaf)
    /\ proc.ran # 0 =>
           (slot[proc.ran].state # "none" /\ "rollback" \notin box[proc.ran].freedBy)
C16_Witness ==
    /\ proc.after_err
    /\ proc.ran # 0
    /\ handler.cb = proc.ran

(* C17: a handler runs only inside a process() or process_priority() call, *)
(* never in a step that registers, and only for a slot whose registration  *)
(* had returned; a process() call made from inside a handler is refused,   *)
(* so no second handler runs while one is running.                         *)
C17_HandlerOnlyInsideProcess ==
    [][handler' # handler =>
          /\ handler'.runs = handler.runs + 1
          /\ proc'.op \in {"process", "process_priority"}
          /\ proc'.ran = handler'.cb
          /\ Len(rqueue') = Len(rqueue) - 1 /\ proc'.taken = 1
          /\ last' = last
          /\ slot[handler'.cb].state = "registered"
          /\ slot[handler'.cb].destroy_cb /\ slot[handler'.cb].floating
          /\ proc'.nested \in {"none", "Err"}]_vars
C17_Witness ==
    /\ handler.runs > 0
    /\ proc.op = "process_priority"
    /\ proc.ran = handler.cb
    /\ proc.nested = "Err"
    /\ last.op \in RegisterOps

(* C18: a process() call takes at most one unit off the engine's queue,    *)
(* and its result is Ok(None) exactly for status 0, Ok(Some(None)) exactly *)
(* for a positive status with no message, Ok(Some(Some(m))) exactly for a  *)
(* positive status with message m, and Err(-status) exactly for a negative *)
(* status.                                                                 *)
C18_ProcessOneUnit ==
    proc.op # "none" =>
        /\ proc.taken \in {0, 1}
        /\ proc.status <= 0 => proc.taken = 0
        /\ proc.res.kind = "None" <=> proc.status = 0
        /\ proc.res.kind = "SomeNone" <=> (proc.status > 0 /\ proc.ret = 0)
        /\ proc.res.kind = "SomeMsg" <=> (proc.status > 0 /\ proc.ret # 0)
        /\ proc.res.kind = "SomeMsg" => proc.res.msg = proc.ret
        /\ proc.res.kind = "Err" <=> proc.status < 0
        /\ proc.res.kind = "Err" => proc.res.errno = -proc.status
C18_Witness ==
    /\ proc.res.kind = "SomeNone"
    /\ proc.taken = 1
    /\ Len(rqueue) > 0

(* C19: the messages the process() calls returned are, in this order, the  *)
(* messages the engine handed out, each once, in the order of arrival.     *)
C19_MessagesInEngineOrder ==
    /\ delivered = presented
    /\ \A i, j \in 1..Len(delivered) : i < j => delivered[i] < delivered[j]
C19_Witness ==
    /\ Len(delivered) = 2
    /\ handler.runs > 0

(* C20: every operation on a message that got a negative status from the   *)
(* engine returns Err with the negated status as its OS error code and     *)
(* builds nothing from the engine's output parameters.                     *)
C20_NegativeStatusIsOsError ==
    last.status < 0 =>
        (~last.ok /\ last.errno = -last.status /\ last.reply = "none")

-----------------------------------------------------------------------------
(* C21: no accessor of a connection or of a message panics on an ordinary  *)
(* condition - a closed connection, a message without sender or without    *)
(* destination: the outcome is a value, an absent value or an error.       *)
C21_NoPanicOnOrdinaryFailure == acc.outcome # "panic"

(* The same for the accessors that return Option or Result.                *)
C21_OptionAndResultAccessorsDoNotPanic ==
    acc.op \in {"path", "interface", "member", "fd"} => acc.outcome # "panic"

-----------------------------------------------------------------------------
(* C22: a call() with a finite timeout to a destination that never replies *)
(* eventually returns, and what it returns is Err, not a reply.            *)
C22_CallTimesOut ==
    (pending.state = "blocked" /\ pending.usec # Infinite /\ ~pending.responsive)
        ~> (pending.state = "returned" /\ last.op = "call" /\ ~last.ok
            /\ last.status = -110 /\ last.reply = "none")
C22_Witness ==
    /\ pending.state = "returned"
    /\ pending.usec = MaxTimeout
    /\ ~pending.responsive
    /\ last.status = -110
    /\ ~last.ok

-----------------------------------------------------------------------------
(* C23: escape_name turns each byte, in order and independently of the     *)
(* others, into '-' for '/', into itself for '_', ':', an ASCII letter or  *)
(* digit and for a '.' that is not the first byte, and into \xHH with two  *)
(* lowercase hexadecimal digits otherwise; the output can be read back     *)
(* into the input, so distinct inputs give distinct outputs.               *)
C23_Kept(b, i) ==
    \/ b = Underscore \/ b = Colon
    \/ b \in 48..57 \/ b \in 65..90 \/ b \in 97..122
    \/ b = Period /\ i # 1
C23_Hex == <<48, 49, 50, 51, 52, 53, 54, 55, 56, 57, 97, 98, 99, 100, 101, 102>>
C23_Image(b, i) ==
    IF b = Slash THEN <<Hyphen>>
    ELSE IF C23_Kept(b, i) THEN <<b>>
    ELSE <<Backslash, LowerX, C23_Hex[(b \div 16) + 1], C23_Hex[(b % 16) + 1]>>
RECURSIVE C23_Concat(_, _)
C23_Concat(s, n) == IF n = 0 THEN <<>> ELSE C23_Concat(s, n - 1) \o C23_Image(s[n], n)
C23_HexValue(c) == IF c \in 48..57 THEN c - 48 ELSE c - 87
RECURSIVE C23_Unescape(_)
C23_Unescape(e) ==
    IF e = <<>> THEN <<>>
    ELSE IF Head(e) = Backslash
    THEN <<16 * C23_HexValue(e[3]) + C23_HexValue(e[4])>> \o C23_Unescape(SubSeq(e, 5, Len(e)))
    ELSE IF Head(e) = Hyphen THEN <<Slash>> \o C23_Unescape(Tail(e))
    ELSE <<Head(e)>> \o C23_Unescape(Tail(e))
C23_EscapeNamePerByte ==
    called = "escape_name" =>
        /\ res.ok
        /\ res.buf = C23_Concat(input, Len(input))
        /\ C23_Unescape(res.buf) = input
C23_Witness ==
    /\ called = "escape_name"
    /\ Len(input) = 3
    /\ input[1] = Period /\ input[2] = Hyphen /\ input[3] = Backslash
    /\ Len(res.buf) = 12

-----------------------------------------------------------------------------
(* C24: a JournalEntryField built from the bytes d gives d back from       *)
(* data(); when d holds a '=', name() is what precedes the first '=' and   *)
(* value() is Some of what follows it, so that name, "=", value put        *)
(* together are d and name holds no '='; when d holds no '=', name() is d  *)
(* and value() is None.                                                    *)
C24_HasEquals(d) == \E i \in 1..Len(d) : d[i] = Equals
C24_FieldSplitsAtFirstEquals ==
    called = "field" =>
        /\ res.data = input
        /\ C24_HasEquals(input) =>
              /\ res.value.some
              /\ res.name \o <<Equals>> \o res.value.v = input
              /\ ~C24_HasEquals(res.name)
        /\ ~C24_HasEquals(input) =>
              /\ res.name = input
              /\ ~res.value.some
C24_Witness ==
    /\ called = "field"
    /\ input = <<72, 61, 61>>
    /\ res.name = <<72>>
    /\ res.value = Some(<<61>>)

-----------------------------------------------------------------------------
(* C25: peek_type does not move the read position: after it the message is *)
(* as before, it reported the type tag of the value at the read position,  *)
(* which is the value a following next of that type returns (or 0 at the   *)
(* end, where next returns None), and with peek_type calls among the next  *)
(* calls the values read so far are still the leading values of the body,  *)
(* one per position passed.                                                *)
C25_TagAt(m) == IF AtEnd(m) THEN NulType ELSE m.body[m.rpos + 1].tag
C25_PeekTypeDoesNotConsume ==
    /\ Len(got) = msg.rpos
    /\ \A i \in 1..Len(got) : dbus_type(got[i].ty) = msg.body[i].tag
    /\ (last.op = "peek_type" /\ last.ok) =>
          /\ msg = last.before
          /\ last.reply = C25_TagAt(msg)
          /\ \A ty \in RustTypes :
                LET n == read_basic_raw(msg, ty).res
                IN  n.ok => (n.val.some <=> dbus_type(ty) = last.reply)
C25_Witness ==
    /\ last.op = "peek_type" /\ last.ok
    /\ last.reply = "s"
    /\ msg.rpos = 1
    /\ Len(got) = 1 /\ got[1].ty = "u32"
    /\ iter = "live"

-----------------------------------------------------------------------------
(* C26: an iterator just obtained from iter() reads from the first value   *)
(* of the message, whatever an earlier iterator has consumed.              *)
C26_FreshIterStartsAtFirstValue ==
    (last.op = "iter" /\ last.ok) => msg.rpos = 0

(* C26, first half: the read position of a message never moves backwards. *)
C26_ReadPositionOnlyForward ==
    [][msg'.rpos >= msg.rpos]_vars

-----------------------------------------------------------------------------
(* C27: iter() on an open message returns Err and gives no iterator; an    *)
(* iterator exists only on a sealed message, and a value is read only from *)
(* a sealed message, on which an append fails.                             *)
C27_IterNeedsSealedMessage ==
    /\ iter = "live" => msg.sealed
    /\ (last.op = "iter" /\ ~last.before.sealed) => (~last.ok /\ iter = "none")
    /\ (last.op = "iter" /\ last.ok) => last.before.sealed
    /\ (last.op = "next" /\ last.reply = "some") =>
          /\ last.before.sealed
          /\ \A ty \in RustTypes :
                ~to_message(Value(ty), last.before, FALSE).res.ok
C27_Witness ==
    /\ last.op = "iter" /\ ~last.ok
    /\ ~msg.sealed
    /\ Len(msg.body) > 0
    /\ iter = "none"

-----------------------------------------------------------------------------
(* C28: every run of raw_message_handler that returns, returns 0; a run    *)
(* whose closure returned Err(e) leaves e's structure (the pointers to its *)
(* name and message, and need_free) in the engine's ret_error, the value e *)
(* is gone from the binding and nothing was freed; a run whose closure     *)
(* returned Ok leaves ret_error and every error value alone.               *)
C28_HandlerRan == handler'.runs = handler.runs + 1
C28_HandlerReturnsZeroAndHandsErrorOver ==
    [][C28_HandlerRan =>
          /\ handler'.ret = 0
          /\ heap' = heap
          /\ badfree' = badfree
          /\ handler'.ret_error = "set" =>
                \E i \in ErrIds :
                    /\ errs[i].state = "live"
                    /\ ret_error' = [state |-> "held", inner |-> errs[i].inner]
                    /\ errs' = [errs EXCEPT ![i] = [state |-> "gone", inner |-> RawErrorDefault]]
          /\ handler'.ret_error = "unset" => (ret_error' = ret_error /\ errs' = errs)]_vars
C28_Witness ==
    /\ handler.runs > 0
    /\ handler.ret = 0
    /\ handler.ret_error = "set"
    /\ ret_error.state = "held"
    /\ ret_error.inner.need_free = 1
    /\ ret_error.inner.name \in AllocIds
    /\ heap[ret_error.inner.name] = [state |-> "live", frees |-> 0]
    /\ \A i \in ErrIds : errs[i].state # "live"

-----------------------------------------------------------------------------
(* C29: on a set error that has a message, message() returns that message. *)
C29_MessageReturnsTheMessage ==
    (called = "message" /\ is_set(input) /\ input.message # NullPtr) =>
        (res.some /\ res.v = to_bytes_with_nul(CStrAt(input.message)))

(* C29, the rest: name() and message() return None exactly when the error  *)
(* is not set, and name() returns the bytes of the name (as a C string,    *)
(* with or without its NUL).                                               *)
C29_NoneIffUnsetAndNameIsName ==
    /\ called \in {"name", "message"} => (res.some <=> input.name # NullPtr)
    /\ (called = "name" /\ res.some) => res.v \in {input.name, to_bytes(input.name)}

-----------------------------------------------------------------------------
(* C30: next_entry() and previous_entry() never panic, whatever the fields *)
(* of the entry the engine hands over, one without '=' included.           *)
C30_EntryReadNeverPanics == journal.out.kind # "panic"

(* C30, the rest: Ok(None) is returned exactly when the engine reported no *)
(* further entry (status 0), Err exactly on a negative status of the       *)
(* engine, and a record returned holds, for every field name of the entry, *)
(* the value of the last field of that name.                               *)
C30_Cut(d) ==
    IF journal.out.threshold = 0 \/ Len(d) <= journal.out.threshold THEN d
    ELSE SubSeq(d, 1, journal.out.threshold)
C30_NoneIffNoFurtherEntry ==
    journal.out.op # "none" =>
        /\ journal.out.kind = "None" <=> journal.out.status = 0
        /\ journal.out.status < 0 =>
              (journal.out.kind = "Err" /\ journal.out.errno = -journal.out.status)
        /\ journal.out.kind = "Some" =>
              LET entry == journal.entries[journal.pos]
              IN  \A i \in 1..Len(entry) :
                      (\A k \in (i + 1)..Len(entry) : entry[k][1] # entry[i][1]) =>
                          \E p \in journal.out.rec :
                              p[1] \o <<Equals>> \o p[2] = C30_Cut(entry[i])

=============================================================================
